---------------------------- MODULE Spec2Model ----------------------------
(***************************************************************************)
(* A model of the geometric transformation and layout engine of            *)
(* ltspice_to_svg: the topology analyzer (T-junction detection), the       *)
(* symbol instantiator (SymbolRenderer / render_symbol / _add_symbols),    *)
(* the schematic renderer (SVGRenderer) and the legacy one-call generator  *)
(* (SVGGenerator.generate).                                                *)
(*                                                                         *)
(* Python dictionaries are functions whose DOMAIN is the set of keys; an   *)
(* absent key is a key outside the DOMAIN.  Lists are sequences.  A raised *)
(* exception is recorded in the variable that holds the outcome of the     *)
(* last call.                                                              *)
(***************************************************************************)
EXTENDS Integers, Sequences, FiniteSets, TLC

VARIABLES
    \* ---- topology analyzer ------------------------------------------------
    wires,        \* schematic_data['wires']: the wire list handed to the analyzer
    symbols,      \* schematic_data['symbols']: instances (terminal exclusion)
    tjGenerator,  \* [called, points]: last result of SVGGenerator._find_t_junctions
    tjRenderer,   \* [called, points]: last result of SVGRenderer._find_t_junctions
    \* ---- SymbolRenderer driven method by method ---------------------------
    symbolRenderer, \* the SymbolRenderer object: dwg, _current_group, _is_mirrored,
                    \* _symbol_def, _window_overrides, config
    lastCall,       \* [op, args, raised]: the last method called and how it ended
    nCalls,         \* number of calls made so far
    inSpan,         \* history: begin_symbol was called and finish_symbol not since
    \* ---- placement of one symbol instance ---------------------------------
    placeSymbol,    \* the instance: [rotation, x, y]
    placePoint,     \* a point of the symbol, in the symbol's own coordinates
    generatorGroup, \* [called, transform]: group transform of SVGGenerator._add_symbols
    rendererGroup,  \* [called, transform]: group transform of SymbolRenderer
    namePosition,   \* [called, pos]: where _add_symbols puts a text anchored at placePoint
    \* ---- whole renders of one schematic -----------------------------------
    schematic,      \* the caller's schematic dictionary
    library,        \* the caller's symbol-definition library
    svgGenerator,   \* the SVGGenerator object
    svgRenderer,    \* the SVGRenderer object of src/renderers
    legacyRenderer, \* the SVGRenderer object of src/generators
    renders,        \* history: [by, schematic, library, out] of every render made
    \* ---- one SVGRenderer called method by method --------------------------
    renderer,       \* an SVGRenderer of src/renderers, its methods called in any order
    rendererCall,   \* [op, raised, completed, before]: the last method, how it
                    \* ended, what had completed before it, and the number of
                    \* elements the drawing had before it
    completed,      \* history: which of load_schematic and create_drawing returned
    rendererCalls,  \* number of calls made so far
    \* ---- ASCParser on one file ---------------------------------------------
    ascLines,  \* the lines of an .asc file, each the record of its words
    parsed, \* [done, flags, io_pins, texts]: what ASCParser.parse returned for them
    \* ---- one flag drawn by either flag renderer ----------------------------
    flagInput,  \* one flag or IO pin of a schematic
    flagScale,  \* the scale the caller of the generator functions passes
    flagDrawn, \* [by, raised, elements]: who drew the flag last, and what it added
    \* ---- one text parsed and rendered --------------------------------------
    textLine,  \* a TEXT line of an .asc file
    textRecord,  \* a text dictionary, the caller's or the one parsed from textLine
    textSource,  \* 'caller' or 'parser': where textRecord comes from
    baseFontSize,  \* the base font size of the SVGRenderer
    textDrawn, \* [by, raised, elements]: who rendered textRecord last, and what it added
    \* ---- one rectangle and its emitters ------------------------------------
    rectInput,  \* the rectangle record handed to the emitters
    rectScale,  \* the scale factor
    rectStrokeWidth,  \* the stroke width
    rectDrawn, \* by which emitter it was drawn, the outcome and the elements
    \* ---- one arc and its emitters ------------------------------------------
    arcInput,  \* the arc record handed to the emitters
    arcScale,  \* the scale factor
    arcDrawn, \* by which emitter it was drawn, the outcome and the elements
    \* ---- the view box of one schematic -------------------------------------
    vbSchematic,  \* the schematic whose view box is computed
    vbScale,  \* the scale of the SVGGenerator
    vbBox, \* by which computation, the outcome, the box and its unit
    \* ---- one SYMBOL line, parsed and placed --------------------------------
    symbolLine,  \* the SYMBOL line handed to the parser
    symbolParsed,  \* the parser's symbols and warnings after the line
    symbolPlaced, \* the group transform set for the parsed symbol
    \* ---- a FLAG line among WIRE lines --------------------------------------
    flagFile,  \* the lines of a schematic file with one FLAG line
    flagParses, \* the file and the flags of each parse made of it
    \* ---- the order of the emitted elements ---------------------------------
    orderSchematic,  \* the schematic whose collections are emitted
    orderEmitted, \* by which emitter, the outcome and the elements in their order
    \* ---- base_font_size of a renderer and of its text renderer -------------
    fontRenderer,  \* a SymbolRenderer or FlagRenderer with its TextRenderer
    fontAssigned,  \* the values assigned to its base_font_size so far
    fontRaised, \* the outcome of the last assignment
    \* ---- parses of one symbol file -----------------------------------------
    asyParser,  \* an ASYParser object with its file
    asyReturned  \* the operation and the value of each parse made through it

tjVars == <<wires, symbols, tjGenerator, tjRenderer>>
symVars == <<symbolRenderer, lastCall, nCalls, inSpan>>
placeVars == <<placeSymbol, placePoint, generatorGroup, rendererGroup, namePosition>>
renderVars == <<schematic, library, svgGenerator, svgRenderer, legacyRenderer, renders>>
callsVars == <<renderer, rendererCall, completed, rendererCalls>>
parseVars == <<ascLines, parsed>>
flagsVars == <<flagInput, flagScale, flagDrawn>>
textVars == <<textLine, textRecord, textSource, baseFontSize, textDrawn>>
rectVars == <<rectInput, rectScale, rectStrokeWidth, rectDrawn>>
arcVars == <<arcInput, arcScale, arcDrawn>>
viewboxVars == <<vbSchematic, vbScale, vbBox>>
symbolLineVars == <<symbolLine, symbolParsed, symbolPlaced>>
flagFileVars == <<flagFile, flagParses>>
orderVars == <<orderSchematic, orderEmitted>>
fontSizeVars == <<fontRenderer, fontAssigned, fontRaised>>
asyVars == <<asyParser, asyReturned>>
vars == <<tjVars, symVars, placeVars, renderVars, callsVars, parseVars, flagsVars, textVars, rectVars, arcVars, viewboxVars, symbolLineVars, flagFileVars, orderVars, fontSizeVars, asyVars>>

\* The variables each specification leaves alone.
othersTJ == <<symVars, placeVars, renderVars, callsVars, parseVars, flagsVars, textVars, rectVars, arcVars, viewboxVars, symbolLineVars, flagFileVars, orderVars, fontSizeVars, asyVars>>
othersSym == <<tjVars, placeVars, renderVars, callsVars, parseVars, flagsVars, textVars, rectVars, arcVars, viewboxVars, symbolLineVars, flagFileVars, orderVars, fontSizeVars, asyVars>>
othersPlace == <<tjVars, symVars, renderVars, callsVars, parseVars, flagsVars, textVars, rectVars, arcVars, viewboxVars, symbolLineVars, flagFileVars, orderVars, fontSizeVars, asyVars>>
othersRender == <<tjVars, symVars, placeVars, callsVars, parseVars, flagsVars, textVars, rectVars, arcVars, viewboxVars, symbolLineVars, flagFileVars, orderVars, fontSizeVars, asyVars>>
othersCalls == <<tjVars, symVars, placeVars, renderVars, parseVars, flagsVars, textVars, rectVars, arcVars, viewboxVars, symbolLineVars, flagFileVars, orderVars, fontSizeVars, asyVars>>
othersParse == <<tjVars, symVars, placeVars, renderVars, callsVars, flagsVars, textVars, rectVars, arcVars, viewboxVars, symbolLineVars, flagFileVars, orderVars, fontSizeVars, asyVars>>
othersFlags == <<tjVars, symVars, placeVars, renderVars, callsVars, parseVars, textVars, rectVars, arcVars, viewboxVars, symbolLineVars, flagFileVars, orderVars, fontSizeVars, asyVars>>
othersText == <<tjVars, symVars, placeVars, renderVars, callsVars, parseVars, flagsVars, rectVars, arcVars, viewboxVars, symbolLineVars, flagFileVars, orderVars, fontSizeVars, asyVars>>
othersRect == <<tjVars, symVars, placeVars, renderVars, callsVars, parseVars, flagsVars, textVars, arcVars, viewboxVars, symbolLineVars, flagFileVars, orderVars, fontSizeVars, asyVars>>
othersArc == <<tjVars, symVars, placeVars, renderVars, callsVars, parseVars, flagsVars, textVars, rectVars, viewboxVars, symbolLineVars, flagFileVars, orderVars, fontSizeVars, asyVars>>
othersViewbox == <<tjVars, symVars, placeVars, renderVars, callsVars, parseVars, flagsVars, textVars, rectVars, arcVars, symbolLineVars, flagFileVars, orderVars, fontSizeVars, asyVars>>
othersSymbolLine == <<tjVars, symVars, placeVars, renderVars, callsVars, parseVars, flagsVars, textVars, rectVars, arcVars, viewboxVars, flagFileVars, orderVars, fontSizeVars, asyVars>>
othersFlagFile == <<tjVars, symVars, placeVars, renderVars, callsVars, parseVars, flagsVars, textVars, rectVars, arcVars, viewboxVars, symbolLineVars, orderVars, fontSizeVars, asyVars>>
othersOrder == <<tjVars, symVars, placeVars, renderVars, callsVars, parseVars, flagsVars, textVars, rectVars, arcVars, viewboxVars, symbolLineVars, flagFileVars, fontSizeVars, asyVars>>
othersFontSize == <<tjVars, symVars, placeVars, renderVars, callsVars, parseVars, flagsVars, textVars, rectVars, arcVars, viewboxVars, symbolLineVars, flagFileVars, orderVars, asyVars>>
othersAsy == <<tjVars, symVars, placeVars, renderVars, callsVars, parseVars, flagsVars, textVars, rectVars, arcVars, viewboxVars, symbolLineVars, flagFileVars, orderVars, fontSizeVars>>

---------------------------------------------------------------------------
(* Small helpers on sequences and integers.                                *)

Abs(n) == IF n < 0 THEN -n ELSE n

RECURSIVE Gcd(_, _)
Gcd(a, b) == IF b = 0 THEN a ELSE Gcd(b, a % b)

Range(s) == {s[i] : i \in 1..Len(s)}

RECURSIVE SeqsUpTo(_, _)
SeqsUpTo(S, n) ==
    IF n = 0 THEN {<<>>}
    ELSE LET shorter == SeqsUpTo(S, n - 1)
         IN  shorter \cup {Append(s, e) : s \in {t \in shorter : Len(t) = n - 1}, e \in S}

---------------------------------------------------------------------------
(* Topology analyzer: T-junction detection.                                *)

\* Bounds of the wire inputs: x in -MaxX..MaxX, y in 0..MaxY, at most MaxWires wires.
MaxX == 1
MaxY == 1
MaxWires == 3

\* NMOS/PMOS drain and source terminals sit 64 units from the symbol origin.
TerminalOffset == 64

WireCoordsX == (0 - MaxX)..MaxX
WireCoordsY == 0..MaxY

WireInputs ==
    [x1 : WireCoordsX, y1 : WireCoordsY, x2 : WireCoordsX, y2 : WireCoordsY]

\* Symbol instances as far as the analyzer reads them (symbol_name, x, y).
TerminalSymbolInputs ==
    {<<>>,
     <<[symbol_name |-> "GND", x |-> 0, y |-> 0]>>,
     <<[symbol_name |-> "NMOS", x |-> 1, y |-> 0]>>,
     <<[symbol_name |-> "res", x |-> 0, y |-> 0]>>}

WireStart(w) == <<w.x1, w.y1>>
WireEnd(w) == <<w.x2, w.y2>>

\* SVGGenerator._get_symbol_terminals: the points excluded from dot placement.
SymbolTerminalsOf(s) ==
    IF s.symbol_name \in {"NMOS", "PMOS"}
    THEN {<<s.x + TerminalOffset, s.y + TerminalOffset>>,
          <<s.x + TerminalOffset, s.y - TerminalOffset>>,
          <<s.x, s.y>>}
    ELSE IF s.symbol_name \in {"VDD", "GND"} THEN {<<s.x, s.y>>}
    ELSE {}

GetSymbolTerminals(syms) == UNION {SymbolTerminalsOf(syms[i]) : i \in 1..Len(syms)}

\* One tally step: the first entry with these coordinates is incremented, or
\* a new entry with occurrence 1 is appended (insertion order is kept).
TallyEndpoint(coords, p) ==
    IF \E i \in 1..Len(coords) : coords[i].x = p[1] /\ coords[i].y = p[2]
    THEN LET i == CHOOSE k \in 1..Len(coords) :
                     /\ coords[k].x = p[1] /\ coords[k].y = p[2]
                     /\ \A j \in 1..(k - 1) : ~(coords[j].x = p[1] /\ coords[j].y = p[2])
         IN  [coords EXCEPT ![i].occurrence = @ + 1]
    ELSE Append(coords, [x |-> p[1], y |-> p[2], occurrence |-> 1])

\* The endpoint tally after all wires: both ends of every wire count once.
RECURSIVE EndpointCoords(_)
EndpointCoords(ws) ==
    IF ws = <<>> THEN <<>>
    ELSE LET prev == EndpointCoords(SubSeq(ws, 1, Len(ws) - 1))
             w == ws[Len(ws)]
         IN  TallyEndpoint(TallyEndpoint(prev, WireStart(w)), WireEnd(w))

RECURSIVE MapPoints(_)
MapPoints(coords) ==
    IF coords = <<>> THEN <<>>
    ELSE <<<<coords[1].x, coords[1].y>>>> \o MapPoints(Tail(coords))

\* Number of wire-ends that coincide at point p.
EndCount(ws, p) ==
    LET hits == SelectSeq(EndpointCoords(ws), LAMBDA c : c.x = p[1] /\ c.y = p[2])
    IN  IF hits = <<>> THEN 0 ELSE hits[1].occurrence

\* The unit direction of (dx, dy).  The code divides by the Euclidean length
\* and rounds to 6 decimals; two integer vectors have the same unit vector
\* exactly when their reductions by the gcd agree, and within the coordinate
\* bounds no two distinct directions are closer than the rounding step.
UnitDirection(dx, dy) ==
    LET g == Gcd(Abs(dx), Abs(dy)) IN <<dx \div g, dy \div g>>

\* The set of distinct directions of the wires incident on p, seen from p.
\* A wire whose start is p is read from its start (the elif is not reached);
\* a zero-length wire has length 0 and contributes no direction.
WireDirections(ws, p) ==
    LET incident == {i \in 1..Len(ws) : WireStart(ws[i]) = p \/ WireEnd(ws[i]) = p}
        dxOf(i) == IF WireStart(ws[i]) = p THEN ws[i].x2 - ws[i].x1 ELSE ws[i].x1 - ws[i].x2
        dyOf(i) == IF WireStart(ws[i]) = p THEN ws[i].y2 - ws[i].y1 ELSE ws[i].y1 - ws[i].y2
    IN  {UnitDirection(dxOf(i), dyOf(i)) :
            i \in {j \in incident : dxOf(j) * dxOf(j) + dyOf(j) * dyOf(j) > 0}}

\* SVGGenerator._find_t_junctions(wires, symbols).
GeneratorFindTJunctions(ws, syms) ==
    LET terminal_points == GetSymbolTerminals(syms)
        qualifies(c) ==
            /\ c.occurrence >= 3
            /\ <<c.x, c.y>> \notin terminal_points
            /\ Cardinality(WireDirections(ws, <<c.x, c.y>>)) >= 3
    IN  MapPoints(SelectSeq(EndpointCoords(ws), qualifies))

\* SVGRenderer._find_t_junctions(wires): the tally alone decides.
RendererFindTJunctions(ws) ==
    MapPoints(SelectSeq(EndpointCoords(ws), LAMBDA c : c.occurrence >= 3))

---------------------------------------------------------------------------
(* Text layout: TextRenderer.render (src/renderers/text_renderer.py).      *)
(* Sizes are integers in units of 1/10000 pixel, so that the multiplier    *)
(* table and the 0.3 / 0.6 baseline factors stay exact.                    *)

\* font_size default of TextRenderer.render, used when the caller passes none.
DefaultTextFontSize == 22

\* TextRenderer.SIZE_MULTIPLIERS, times 10000; an index outside the table
\* falls back to the entry of index 2.
SizeMultiplier(index) ==
    CASE index = 0 -> 6250
      [] index = 1 -> 10000
      [] index = 2 -> 15000
      [] index = 3 -> 20000
      [] index = 4 -> 25000
      [] index = 5 -> 35000
      [] index = 6 -> 50000
      [] index = 7 -> 70000
      [] OTHER -> 15000

\* justification.startswith('V'), over the justification strings of the inputs.
IsVertical(justification) ==
    justification \in {"VLeft", "VRight", "VCenter", "VTop", "VBottom", "VMiddle"}

\* justification[1:] when the justification starts with 'V'.
StripVertical(justification) ==
    CASE justification = "VLeft" -> "Left"
      [] justification = "VRight" -> "Right"
      [] justification = "VCenter" -> "Center"
      [] justification = "VTop" -> "Top"
      [] justification = "VBottom" -> "Bottom"
      [] justification = "VMiddle" -> "Middle"
      [] OTHER -> justification

TextAnchor(justification) ==
    IF justification = "Left" THEN "start"
    ELSE IF justification = "Right" THEN "end"
    ELSE "middle"

\* y_offset with the factor of Left, Center and Right for Top as well.
BaselineOffset_TopAsCenter(justification, font_size) ==
    IF justification \in {"Left", "Center", "Right", "Top"} THEN (font_size * 3) \div 10
    ELSE 0

\* y_offset: 0.3, 0.6 or 0.0 times the font size.
BaselineOffset(justification, font_size) ==
    IF justification \in {"Left", "Center", "Right"} THEN (font_size * 3) \div 10
    ELSE IF justification = "Top" THEN (font_size * 6) \div 10
    ELSE 0

\* content.startswith('!') and content.startswith(';'), over the texts of
\* the inputs, and content[1:] for those.
StartsWithBang(content) == content \in {"!.tran 1", "!;x"}
StartsWithSemicolon(content) == content \in {";note", ";!y"}
DropFirstChar(content) ==
    CASE content = "!.tran 1" -> ".tran 1"
      [] content = "!;x" -> ";x"
      [] content = ";note" -> "note"
      [] content = ";!y" -> "!y"
      [] OTHER -> content

\* The prefix stripping of TextRenderer.render: '!' off a spice text, ';' off
\* a comment text.
StripPrefix(content, type) ==
    IF type = "spice" /\ StartsWithBang(content) THEN DropFirstChar(content)
    ELSE IF type = "comment" /\ StartsWithSemicolon(content) THEN DropFirstChar(content)
    ELSE content

\* TextRenderer.render(text, font_size): the elements it adds to its target
\* (none for an empty text, else one text group).
TextRendererRender(text, font_size) ==
    IF text.text = "" THEN <<>>
    ELSE LET size == font_size * SizeMultiplier(text.size_multiplier)
             just == IF IsVertical(text.justification)
                     THEN StripVertical(text.justification)
                     ELSE text.justification
         IN  <<[tag |-> "text",
                content |-> StripPrefix(text.text, text.type),
                x |-> text.x,
                y |-> text.y,
                y_offset |-> BaselineOffset(just, size),
                text_anchor |-> TextAnchor(just),
                font_size |-> size,
                vertical |-> IsVertical(text.justification)]>>

---------------------------------------------------------------------------
(* Shape emission inside a symbol: ShapeRenderer.render.                   *)

\* A dash pattern is a sequence of tokens; a token is numeric or not.
DashNone == <<>>
DashDash == <<[numeric |-> TRUE, value |-> 4], [numeric |-> TRUE, value |-> 2]>>
DashBad == <<[numeric |-> TRUE, value |-> 4], [numeric |-> FALSE, value |-> 0]>>

DashIsNumeric(pattern) == \A i \in 1..Len(pattern) : pattern[i].numeric

\* _scale_dash_array: every token times the stroke width (float(x) raises
\* ValueError on a non-numeric token; callers test DashIsNumeric first).
ScaleDashArray(pattern, stroke_width) ==
    [i \in 1..Len(pattern) |-> pattern[i].value * stroke_width]

\* ShapeRenderer.render(shape_data, stroke_width, target_group): the outcome
\* and the element added to the target.
ShapeRendererRender(shape, stroke_width) ==
    IF ~shape.has_coords THEN [raised |-> "KeyError", elements |-> <<>>]
    ELSE IF ~DashIsNumeric(shape.style) THEN [raised |-> "ValueError", elements |-> <<>>]
    ELSE [raised |-> "None",
          elements |-> <<[tag |-> shape.type,
                          x1 |-> shape.x1, y1 |-> shape.y1,
                          x2 |-> shape.x2, y2 |-> shape.y2,
                          stroke_width |-> stroke_width,
                          dash |-> ScaleDashArray(shape.style, stroke_width)]>>]

\* Two outcomes in sequence: the second runs only if the first did not raise.
ThenShapes(a, b) ==
    IF a.raised # "None" THEN a
    ELSE [raised |-> b.raised, elements |-> a.elements \o b.elements]

\* Rendering a list of shapes of one type, in order, stopping at the first
\* failure: [raised, elements] with the elements added before the failure.
RECURSIVE RenderShapeList(_, _, _)
RenderShapeList(list, type, stroke_width) ==
    IF list = <<>> THEN [raised |-> "None", elements |-> <<>>]
    ELSE ThenShapes(ShapeRendererRender([list[1] EXCEPT !.type = type], stroke_width),
                    RenderShapeList(Tail(list), type, stroke_width))

---------------------------------------------------------------------------
(* SymbolRenderer (src/renderers/symbol_renderer.py).  The object is the   *)
(* record self = [dwg, current_group, is_mirrored, symbol_def,             *)
(* window_overrides, config]; each method is an operator from self and its *)
(* arguments to [self, raised], raised = "None" when it returns normally.  *)

NoGroup == [open |-> FALSE, transform |-> <<>>, children |-> <<>>]
NewGroup == [open |-> TRUE, transform |-> <<>>, children |-> <<>>]

\* Dictionary keys of window tables: the integer n and the string "n" are
\* different keys.
IntKey(n) == <<"int", n>>
StrKey(n) == <<"str", n>>
\* int(property_id) for a string key holding a numeral.
IntOfStrKey(k) == IntKey(k[2])

NoWindows == [k \in {} |-> 0]

\* The symbol definition: None, or a dictionary (has_windows tells whether
\* the key 'windows' is present; an empty dictionary has no key at all).
NoneDef ==
    [is_none |-> TRUE, is_empty |-> TRUE, has_windows |-> FALSE, windows |-> NoWindows,
     lines |-> <<>>, circles |-> <<>>, rectangles |-> <<>>, arcs |-> <<>>, texts |-> <<>>]
\* Python truth of the definition: None and {} are both false.
DefIsTruthy(def) == ~def.is_none /\ ~def.is_empty
\* symbol_def.get('windows', {})
DefWindows(def) == IF def.has_windows THEN def.windows ELSE NoWindows

Returned(self) == [self |-> self, raised |-> "None"]
Raised(self, exc) == [self |-> self, raised |-> exc]

\* SymbolRenderer(dwg, config)
NewSymbolRenderer(config) ==
    [dwg |-> <<>>, current_group |-> NoGroup, is_mirrored |-> FALSE,
     symbol_def |-> NoneDef, window_overrides |-> NoWindows, config |-> config]

\* Adds elements to the current group.
AddToGroup(self, elements) ==
    [self EXCEPT !.current_group.children = @ \o elements]

\* begin_symbol()
BeginSymbol(self) ==
    Returned([self EXCEPT !.current_group = NewGroup,
                          !.is_mirrored = FALSE,
                          !.symbol_def = NoneDef,
                          !.window_overrides = NoWindows])

\* The transform list set_transformation builds: translate, then rotate
\* (if the angle is not 0), then scale(-1,1) (if mirrored).
SymbolRendererTransform(rotation, translation) ==
    LET angle == IF rotation.numeric THEN rotation.angle ELSE 0
    IN  <<[kind |-> "translate", a |-> translation[1], b |-> translation[2]]>>
        \o (IF angle # 0 THEN <<[kind |-> "rotate", a |-> angle, b |-> 0]>> ELSE <<>>)
        \o (IF rotation.type = "M" THEN <<[kind |-> "scale", a |-> -1, b |-> 1]>> ELSE <<>>)

\* set_transformation(rotation, translation)
SetTransformation(self, rotation, translation) ==
    IF ~self.current_group.open THEN Raised(self, "ValueError")
    ELSE Returned([self EXCEPT
            !.is_mirrored = (rotation.type = "M"),
            !.current_group.transform = SymbolRendererTransform(rotation, translation)])

\* set_symbol_definition(symbol_def)
SetSymbolDefinition(self, symbol_def) ==
    IF ~self.current_group.open THEN Raised(self, "ValueError")
    ELSE Returned([self EXCEPT !.symbol_def = symbol_def])

\* set_window_overrides(window_overrides)
SetWindowOverrides(self, window_overrides) ==
    IF ~self.current_group.open THEN Raised(self, "ValueError")
    ELSE Returned([self EXCEPT !.window_overrides = window_overrides])

\* The group and the outcome of render_shapes after its loop.
ShapesToGroup(self, out) == [self |-> AddToGroup(self, out.elements), raised |-> out.raised]

\* render_shapes(shapes, stroke_width): lines, circles, rectangles, arcs in
\* the dictionary's order; an exception is logged and re-raised, the shapes
\* rendered before it stay in the group.
SymbolRenderShapes(self, shapes, stroke_width) ==
    IF ~self.current_group.open THEN Raised(self, "ValueError")
    ELSE ShapesToGroup(self,
            ThenShapes(ThenShapes(ThenShapes(
                RenderShapeList(shapes.lines, "line", stroke_width),
                RenderShapeList(shapes.circles, "circle", stroke_width)),
                RenderShapeList(shapes.rectangles, "rectangle", stroke_width)),
                RenderShapeList(shapes.arcs, "arc", stroke_width)))

RECURSIVE RenderTextList(_, _)
RenderTextList(texts, font_size) ==
    IF texts = <<>> THEN <<>>
    ELSE TextRendererRender(texts[1], font_size) \o RenderTextList(Tail(texts), font_size)

\* render_texts without its check that a symbol was started.
SymbolRenderTexts_Unguarded(self, texts) ==
    IF self.config.no_nested_symbol_text THEN Returned(self)
    ELSE Returned(AddToGroup(self, RenderTextList(texts, DefaultTextFontSize)))

\* render_texts(texts)
SymbolRenderTexts(self, texts) ==
    IF ~self.current_group.open THEN Raised(self, "ValueError")
    ELSE IF self.config.no_nested_symbol_text THEN Returned(self)
    ELSE Returned(AddToGroup(self, RenderTextList(texts, DefaultTextFontSize)))

\* The window settings _render_window_property uses for a property: the
\* override under the integer key, else the override under the string key,
\* else the definition's window.
WindowSettings(self, property_id) ==
    IF IntOfStrKey(property_id) \in DOMAIN self.window_overrides
    THEN self.window_overrides[IntOfStrKey(property_id)]
    ELSE IF property_id \in DOMAIN self.window_overrides
    THEN self.window_overrides[property_id]
    ELSE DefWindows(self.symbol_def)[property_id]

\* The text data _render_window_property builds from the window settings.
WindowTextData(w, property_value) ==
    [x |-> w.x, y |-> w.y, text |-> property_value,
     justification |-> w.justification,
     size_multiplier |-> IF w.has_size THEN w.size_multiplier ELSE 0,
     type |-> "comment"]

\* _render_window_property(property_id, property_value)
RenderWindowProperty(self, property_id, property_value) ==
    IF ~self.current_group.open THEN Raised(self, "ValueError")
    ELSE IF ~DefIsTruthy(self.symbol_def) THEN Raised(self, "ValueError")
    ELSE IF DOMAIN DefWindows(self.symbol_def) = {} THEN Returned(self)
    ELSE IF property_id \notin DOMAIN DefWindows(self.symbol_def) THEN Returned(self)
    ELSE Returned(AddToGroup(self,
            TextRendererRender(WindowTextData(WindowSettings(self, property_id),
                                              property_value),
                               DefaultTextFontSize)))

\* render_component_name(instance_name)
RenderComponentName(self, instance_name) ==
    IF ~self.current_group.open THEN Raised(self, "ValueError")
    ELSE IF ~DefIsTruthy(self.symbol_def) THEN Raised(self, "ValueError")
    ELSE IF self.config.no_component_name THEN Returned(self)
    ELSE IF instance_name = "" THEN Returned(self)
    ELSE RenderWindowProperty(self, StrKey(0), instance_name)

\* render_component_value(value)
RenderComponentValue(self, value) ==
    IF ~self.current_group.open THEN Raised(self, "ValueError")
    ELSE IF ~DefIsTruthy(self.symbol_def) THEN Raised(self, "ValueError")
    ELSE IF self.config.no_component_value THEN Returned(self)
    ELSE IF value = "" THEN Returned(self)
    ELSE RenderWindowProperty(self, StrKey(3), value)

\* finish_symbol(): the group goes to the drawing and the cursor is reset.
FinishSymbol(self) ==
    IF ~self.current_group.open THEN Raised(self, "ValueError")
    ELSE Returned([self EXCEPT
            !.dwg = Append(@, [tag |-> "g",
                               transform |-> self.current_group.transform,
                               children |-> self.current_group.children]),
            !.current_group = NoGroup,
            !.is_mirrored = FALSE,
            !.symbol_def = NoneDef,
            !.window_overrides = NoWindows])

---------------------------------------------------------------------------
(* Inputs of the symbol instantiator.                                      *)

Rot(type, angle) == [type |-> type, angle |-> angle, numeric |-> TRUE]
\* A rotation string whose suffix is not a number, such as "Rxx".
RotInvalid == [type |-> "R", angle |-> 0, numeric |-> FALSE]

Orientations ==
    {Rot(t, a) : t \in {"R", "M"}, a \in {0, 90, 180, 270}}

Window(x, y, justification, size) ==
    [x |-> x, y |-> y, justification |-> justification,
     size_multiplier |-> size, has_size |-> TRUE]

WindowOfDef0 == Window(3, -7, "Left", 2)
WindowOfDef3 == Window(3, 9, "Left", 2)
WindowOverride == Window(5, 6, "Right", 3)
WindowOverrideStr == Window(-4, 8, "Top", 1)

\* A definition dictionary with the given shape lists and texts, and with the
\* key 'windows' when has_windows.
SymbolDef(has_windows, windows, lines, circles, rectangles, arcs, texts) ==
    [is_none |-> FALSE, is_empty |-> FALSE, has_windows |-> has_windows,
     windows |-> windows, lines |-> lines, circles |-> circles,
     rectangles |-> rectangles, arcs |-> arcs, texts |-> texts]
DictDef(windows) == SymbolDef(TRUE, windows, <<>>, <<>>, <<>>, <<>>, <<>>)
\* {}: a definition that is an empty dictionary.
DefEmpty == [NoneDef EXCEPT !.is_none = FALSE]
\* A definition without the key 'windows'.
DefNoWindows == SymbolDef(FALSE, NoWindows, <<>>, <<>>, <<>>, <<>>, <<>>)
DefWindow0 == DictDef([k \in {StrKey(0)} |-> WindowOfDef0])
DefWindow3 == DictDef([k \in {StrKey(3)} |-> WindowOfDef3])
DefWindow03 ==
    DictDef([k \in {StrKey(0), StrKey(3)} |-> IF k = StrKey(0) THEN WindowOfDef0 ELSE WindowOfDef3])

OverridesInt0 == [k \in {IntKey(0)} |-> WindowOverride]
OverridesStr0 == [k \in {StrKey(0)} |-> WindowOverrideStr]
OverridesBoth0 ==
    [k \in {IntKey(0), StrKey(0)} |-> IF k = IntKey(0) THEN WindowOverride ELSE WindowOverrideStr]

Shape(x1, y1, x2, y2, style) ==
    [type |-> "", x1 |-> x1, y1 |-> y1, x2 |-> x2, y2 |-> y2,
     start_angle |-> 0, end_angle |-> 0, style |-> style, has_coords |-> TRUE]
Arc(x1, y1, x2, y2, start_angle, end_angle, style) ==
    [Shape(x1, y1, x2, y2, style) EXCEPT !.start_angle = start_angle,
                                         !.end_angle = end_angle]
GoodLine == Shape(0, 0, 16, 0, DashNone)
DashedLine == Shape(0, 0, 0, 16, DashDash)
\* A line whose dash style holds a token that is not a number.
BadStyleLine == Shape(0, 16, 16, 16, DashBad)
\* A line without its coordinate keys.
NoCoordsLine == [Shape(0, 0, 0, 0, DashNone) EXCEPT !.has_coords = FALSE]

Shapes(lines, circles, rectangles, arcs) ==
    [lines |-> lines, circles |-> circles, rectangles |-> rectangles, arcs |-> arcs]
NoShapes == Shapes(<<>>, <<>>, <<>>, <<>>)

Text(x, y, content, justification, size, type) ==
    [x |-> x, y |-> y, text |-> content, justification |-> justification,
     size_multiplier |-> size, type |-> type, property_id |-> -1]

\* The text options of a RenderingConfig.
TextOptions(comment, spice, nested, name, value) ==
    [no_schematic_comment |-> comment, no_spice_directive |-> spice,
     no_nested_symbol_text |-> nested, no_component_name |-> name,
     no_component_value |-> value, no_net_label |-> FALSE]

\* set_option('no_net_label', value)
SetNoNetLabel(config, value) == [config EXCEPT !.no_net_label = value]
Config(nested, name, value) == TextOptions(FALSE, FALSE, nested, name, value)
DefaultConfig == Config(FALSE, FALSE, FALSE)

\* BaseRenderer.DEFAULT_STROKE_WIDTH
DefaultStrokeWidth == 2

---------------------------------------------------------------------------
(* Symbol placement in SVGGenerator._add_symbols                           *)
(* (src/generators/svg_generator.py) and what an SVG transform list does   *)
(* to a point.                                                             *)

\* The transform list _add_symbols gives the group of an instance:
\* translate, then scale(-1,1) if mirrored, then rotate if the angle is not 0.
GeneratorSymbolTransform(rotation, x, y, scale) ==
    LET angle == IF rotation.numeric THEN rotation.angle ELSE 0
    IN  <<[kind |-> "translate", a |-> x * scale, b |-> y * scale]>>
        \o (IF rotation.type = "M" THEN <<[kind |-> "scale", a |-> -1, b |-> 1]>> ELSE <<>>)
        \o (IF angle # 0 THEN <<[kind |-> "rotate", a |-> angle, b |-> 0]>> ELSE <<>>)

\* The per-point rule _add_symbols applies to the position of the instance
\* name: negate x if mirrored, then the fixed rotation for 90, 180 or 270.
GeneratorRotateMirror(rotation, p) ==
    LET angle == IF rotation.numeric THEN rotation.angle ELSE 0
        text_x == IF rotation.type = "M" THEN -p[1] ELSE p[1]
        text_y == p[2]
    IN  IF angle = 90 THEN <<-text_y, text_x>>
        ELSE IF angle = 180 THEN <<-text_x, -text_y>>
        ELSE IF angle = 270 THEN <<text_y, -text_x>>
        ELSE <<text_x, text_y>>

\* The insert point of the instance name, before the baseline offset:
\* ((symbol.x + text_x) * scale, (symbol.y + text_y) * scale).
GeneratorNamePosition(rotation, x, y, scale, p) ==
    LET q == GeneratorRotateMirror(rotation, p)
    IN  <<(x + q[1]) * scale, (y + q[2]) * scale>>

\* cos and sin of a multiple of 90 degrees.
Cos90(angle) ==
    CASE angle % 360 = 0 -> 1 [] angle % 360 = 180 -> -1 [] OTHER -> 0
Sin90(angle) ==
    CASE angle % 360 = 90 -> 1 [] angle % 360 = 270 -> -1 [] OTHER -> 0

\* One component of an SVG transform list applied to a point.
ApplyComponent(c, p) ==
    CASE c.kind = "translate" -> <<p[1] + c.a, p[2] + c.b>>
      [] c.kind = "scale" -> <<c.a * p[1], c.b * p[2]>>
      [] c.kind = "rotate" -> <<p[1] * Cos90(c.a) - p[2] * Sin90(c.a),
                                p[1] * Sin90(c.a) + p[2] * Cos90(c.a)>>

\* An SVG transform list applied to a point: the list is a product of
\* matrices, so its last component acts on the point first.
RECURSIVE ApplyTransform(_, _)
ApplyTransform(transform, p) ==
    IF transform = <<>> THEN p
    ELSE ApplyComponent(transform[1], ApplyTransform(Tail(transform), p))

---------------------------------------------------------------------------
(* SVGGenerator (src/generators/svg_generator.py): generate and the        *)
(* helpers it calls.  An emitter returns [raised, elements]: the elements  *)
(* added to the drawing and the exception that stopped it ("None" if it    *)
(* ran to its end).                                                        *)

\* schematic_data.get(key, default)
DictGet(d, key, default) == IF key \in d.keys THEN d[key] ELSE default

SetMin(S) == CHOOSE m \in S : \A n \in S : m <= n
SetMax(S) == CHOOSE m \in S : \A n \in S : m >= n

EmptyLibrary == [n \in {} |-> NoneDef]

\* SVGGenerator.BUILTIN_SYMBOLS['GND']
BuiltinGND ==
    SymbolDef(FALSE, NoWindows,
              <<Shape(-16, 0, 16, 0, DashNone), Shape(16, 0, 0, 16, DashNone),
                Shape(0, 16, -16, 0, DashNone)>>,
              <<>>, <<>>, <<>>, <<>>)

\* self.symbol_data after the first lines of generate: the caller's library
\* (or a new dictionary if that one is empty), with 'GND' added if absent.
GeneratorSymbolData(symbols_data) ==
    IF "GND" \in DOMAIN symbols_data THEN symbols_data
    ELSE [n \in DOMAIN symbols_data \cup {"GND"} |->
             IF n = "GND" THEN BuiltinGND ELSE symbols_data[n]]

\* The caller's library object after generate: 'symbols_data or {}' is the
\* caller's own dictionary unless that one is empty, and 'GND' is added to it.
CallerLibraryAfterGenerate(symbols_data) ==
    IF DOMAIN symbols_data = {} THEN symbols_data ELSE GeneratorSymbolData(symbols_data)

AllShapes(shapes) == shapes.lines \o shapes.circles \o shapes.rectangles \o shapes.arcs

\* The x and y coordinates that enter the bounding box of generate.
GeneratorBoundsX(gen) ==
    UNION {{w.x1, w.x2} : w \in Range(gen.wires)}
    \cup UNION {{s.x - 100, s.x + 100} : s \in Range(gen.symbols)}
    \cup UNION {{t.x - 50, t.x + 50} : t \in Range(gen.texts)}
    \cup UNION {{f.x - 20, f.x + 20} : f \in Range(gen.flags)}
    \cup UNION {{s.x1, s.x2} : s \in Range(AllShapes(gen.shapes))}
GeneratorBoundsY(gen) ==
    UNION {{w.y1, w.y2} : w \in Range(gen.wires)}
    \cup UNION {{s.y - 100, s.y + 100} : s \in Range(gen.symbols)}
    \cup UNION {{t.y - 20, t.y + 20} : t \in Range(gen.texts)}
    \cup UNION {{f.y - 10, f.y + 10} : f \in Range(gen.flags)}
    \cup UNION {{s.y1, s.y2} : s \in Range(AllShapes(gen.shapes))}

\* The viewBox generate gives the drawing: the bounding box (or -100..100
\* when the schematic is empty), padded by 50 * scale, times scale.
GeneratorViewbox(gen) ==
    LET xs == GeneratorBoundsX(gen)
        ys == GeneratorBoundsY(gen)
        padding == 50 * gen.scale
        min_x == ((IF xs = {} THEN -100 ELSE SetMin(xs)) - padding) * gen.scale
        max_x == ((IF xs = {} THEN 100 ELSE SetMax(xs)) + padding) * gen.scale
        min_y == ((IF ys = {} THEN -100 ELSE SetMin(ys)) - padding) * gen.scale
        max_y == ((IF ys = {} THEN 100 ELSE SetMax(ys)) + padding) * gen.scale
    IN  [min_x |-> min_x, min_y |-> min_y,
         width |-> max_x - min_x, height |-> max_y - min_y]

LineElement(x1, y1, x2, y2, stroke_width, dash) ==
    [tag |-> "line", x1 |-> x1, y1 |-> y1, x2 |-> x2, y2 |-> y2,
     stroke_width |-> stroke_width, dash |-> dash]

DotElement(cx, cy, r) == [tag |-> "circle", cx |-> cx, cy |-> cy, r |-> r, fill |-> "black"]

\* The wires emitted last to first.
GeneratorWires_Reversed(gen) ==
    [i \in 1..Len(gen.wires) |->
        LineElement(gen.wires[Len(gen.wires) + 1 - i].x1 * gen.scale,
                    gen.wires[Len(gen.wires) + 1 - i].y1 * gen.scale,
                    gen.wires[Len(gen.wires) + 1 - i].x2 * gen.scale,
                    gen.wires[Len(gen.wires) + 1 - i].y2 * gen.scale,
                    gen.stroke_width, <<>>)]

GeneratorWires(gen) ==
    [i \in 1..Len(gen.wires) |->
        LineElement(gen.wires[i].x1 * gen.scale, gen.wires[i].y1 * gen.scale,
                    gen.wires[i].x2 * gen.scale, gen.wires[i].y2 * gen.scale,
                    gen.stroke_width, <<>>)]

GeneratorDots(gen, t_junctions) ==
    [i \in 1..Len(t_junctions) |->
        DotElement(t_junctions[i][1] * gen.scale, t_junctions[i][2] * gen.scale,
                   gen.stroke_width * gen.dot_size_multiplier)]

Emitted(elements) == [raised |-> "None", elements |-> elements]
Failed(exc) == [raised |-> exc, elements |-> <<>>]

\* The round or elliptic element of a bounding box (coordinates are on
\* LTspice's grid, so the halves are whole numbers).
RoundElement(s, scale, stroke_width, dash) ==
    LET rx == (Abs(s.x2 - s.x1) \div 2) * scale
        ry == (Abs(s.y2 - s.y1) \div 2) * scale
        cx == ((s.x1 + s.x2) \div 2) * scale
        cy == ((s.y1 + s.y2) \div 2) * scale
    IN  IF rx = ry
        THEN [tag |-> "circle", cx |-> cx, cy |-> cy, r |-> rx,
              stroke_width |-> stroke_width, dash |-> dash]
        ELSE [tag |-> "ellipse", cx |-> cx, cy |-> cy, rx |-> rx, ry |-> ry,
              stroke_width |-> stroke_width, dash |-> dash]

\* The path of an arc: start point, radii, the two flags, end point (angles
\* are multiples of 90 degrees).
ArcElement(s, scale, large_arc, sweep, stroke_width, dash) ==
    LET rx == Abs(s.x2 - s.x1) \div 2
        ry == Abs(s.y2 - s.y1) \div 2
        cx == (s.x1 + s.x2) \div 2
        cy == (s.y1 + s.y2) \div 2
    IN  [tag |-> "path", closed |-> FALSE,
         start_x |-> (cx + rx * Cos90(s.start_angle)) * scale,
         start_y |-> (cy + ry * Sin90(s.start_angle)) * scale,
         rx |-> rx * scale, ry |-> ry * scale,
         large_arc |-> large_arc, sweep |-> sweep,
         end_x |-> (cx + rx * Cos90(s.end_angle)) * scale,
         end_y |-> (cy + ry * Sin90(s.end_angle)) * scale,
         stroke_width |-> stroke_width, dash |-> dash]

\* One schematic shape as _add_shapes emits it.
GeneratorShape(gen, kind, s) ==
    CASE kind = "lines" ->
            IF ~DashIsNumeric(s.style) THEN Failed("ValueError")
            ELSE IF ~s.has_coords THEN Failed("KeyError")
            ELSE Emitted(<<LineElement(s.x1 * gen.scale, s.y1 * gen.scale,
                                       s.x2 * gen.scale, s.y2 * gen.scale,
                                       gen.stroke_width,
                                       ScaleDashArray(s.style, gen.stroke_width))>>)
      [] kind = "circles" ->
            IF ~s.has_coords THEN Failed("KeyError")
            ELSE IF ~DashIsNumeric(s.style) THEN Failed("ValueError")
            ELSE Emitted(<<RoundElement(s, gen.scale, gen.stroke_width,
                                        ScaleDashArray(s.style, gen.stroke_width))>>)
      [] kind = "rectangles" ->
            IF ~s.has_coords THEN Failed("KeyError")
            ELSE IF ~DashIsNumeric(s.style) THEN Failed("ValueError")
            ELSE LET x == SetMin({s.x1, s.x2}) * gen.scale
                     y == SetMin({s.y1, s.y2}) * gen.scale
                     width == Abs(s.x2 - s.x1) * gen.scale
                     height == Abs(s.y2 - s.y1) * gen.scale
                 IN  IF s.style # <<>>
                     THEN Emitted(<<[tag |-> "path", closed |-> TRUE,
                                     points |-> <<<<x, y>>, <<x + width, y>>,
                                                  <<x + width, y + height>>,
                                                  <<x, y + height>>>>,
                                     stroke_width |-> gen.stroke_width,
                                     dash |-> ScaleDashArray(s.style, gen.stroke_width)]>>)
                     ELSE Emitted(<<[tag |-> "rect", x |-> x, y |-> y,
                                     width |-> width, height |-> height,
                                     stroke_width |-> gen.stroke_width, dash |-> <<>>]>>)
      [] kind = "arcs" ->
            IF ~s.has_coords THEN Failed("KeyError")
            ELSE IF ~DashIsNumeric(s.style) THEN Failed("ValueError")
            ELSE Emitted(<<ArcElement(s, gen.scale,
                                      Abs(s.end_angle - s.start_angle) > 180,
                                      s.end_angle > s.start_angle,
                                      gen.stroke_width,
                                      ScaleDashArray(s.style, gen.stroke_width))>>)

RECURSIVE GeneratorShapeList(_, _, _)
GeneratorShapeList(gen, kind, list) ==
    IF list = <<>> THEN Emitted(<<>>)
    ELSE ThenShapes(GeneratorShape(gen, kind, list[1]),
                    GeneratorShapeList(gen, kind, Tail(list)))

\* _add_shapes(dwg, shapes): lines, circles, rectangles, arcs.
GeneratorAddShapes(gen, shapes) ==
    ThenShapes(ThenShapes(ThenShapes(
        GeneratorShapeList(gen, "lines", shapes.lines),
        GeneratorShapeList(gen, "circles", shapes.circles)),
        GeneratorShapeList(gen, "rectangles", shapes.rectangles)),
        GeneratorShapeList(gen, "arcs", shapes.arcs))

\* One shape of a symbol definition as _add_symbols emits it into the
\* instance's group.
GeneratorSymbolShape(gen, kind, s) ==
    CASE kind = "lines" ->
            IF ~DashIsNumeric(s.style) THEN Failed("ValueError")
            ELSE IF ~s.has_coords THEN Failed("KeyError")
            ELSE Emitted(<<LineElement(s.x1 * gen.scale, s.y1 * gen.scale,
                                       s.x2 * gen.scale, s.y2 * gen.scale,
                                       gen.stroke_width,
                                       ScaleDashArray(s.style, gen.stroke_width))>>)
      [] kind = "circles" ->
            IF ~s.has_coords THEN Failed("KeyError")
            ELSE IF ~DashIsNumeric(s.style) THEN Failed("ValueError")
            ELSE Emitted(<<RoundElement(s, gen.scale, gen.stroke_width,
                                        ScaleDashArray(s.style, gen.stroke_width))>>)
      [] kind = "rectangles" ->
            IF ~DashIsNumeric(s.style) THEN Failed("ValueError")
            ELSE IF ~s.has_coords THEN Failed("KeyError")
            ELSE Emitted(<<[tag |-> "rect",
                            x |-> s.x1 * gen.scale, y |-> s.y1 * gen.scale,
                            width |-> (s.x2 - s.x1) * gen.scale,
                            height |-> (s.y2 - s.y1) * gen.scale,
                            stroke_width |-> gen.stroke_width,
                            dash |-> ScaleDashArray(s.style, gen.stroke_width)]>>)
      [] kind = "arcs" ->
            IF ~s.has_coords THEN Failed("KeyError")
            ELSE IF ~DashIsNumeric(s.style) THEN Failed("ValueError")
            ELSE Emitted(<<ArcElement(s, gen.scale,
                                      (s.end_angle - s.start_angle) % 360 > 180,
                                      TRUE,
                                      gen.stroke_width,
                                      ScaleDashArray(s.style, gen.stroke_width))>>)

RECURSIVE GeneratorSymbolShapeList(_, _, _)
GeneratorSymbolShapeList(gen, kind, list) ==
    IF list = <<>> THEN Emitted(<<>>)
    ELSE ThenShapes(GeneratorSymbolShape(gen, kind, list[1]),
                    GeneratorSymbolShapeList(gen, kind, Tail(list)))

\* The shapes of a definition inside the group: symbols_data[name]['lines']
\* (a KeyError when the definition has no such key), then circles,
\* rectangles and arcs.
GeneratorSymbolShapes(gen, def) ==
    IF def.is_empty THEN Failed("KeyError")
    ELSE ThenShapes(ThenShapes(ThenShapes(
            GeneratorSymbolShapeList(gen, "lines", def.lines),
            GeneratorSymbolShapeList(gen, "circles", def.circles)),
            GeneratorSymbolShapeList(gen, "rectangles", def.rectangles)),
            GeneratorSymbolShapeList(gen, "arcs", def.arcs))

\* The text of the definition that positions the instance name: the first
\* one whose property_id is 0.
NameTexts(def) == SelectSeq(def.texts, LAMBDA t : t.property_id = 0)

\* The justification of the instance name of a mirrored instance.
FlipJustification(justification) ==
    CASE justification = "Left" -> "Right"
      [] justification = "Right" -> "Left"
      [] OTHER -> justification

\* The font size of a generator text: font_size * size_multiplier, in
\* 1/10000 pixel.
GeneratorFontSize(gen, size_multiplier) == gen.font_size * size_multiplier * 10000

\* The instance name as _add_symbols adds it to the drawing (not to the
\* group): nothing without a name, with no_text, or without a positioning
\* text in the definition.
GeneratorInstanceName(gen, symbol, def) ==
    IF symbol.instance_name = "" \/ gen.no_text \/ NameTexts(def) = <<>> THEN Emitted(<<>>)
    ELSE LET text == NameTexts(def)[1]
             mirrored == symbol.rotation.type = "M"
         IN  IF mirrored /\ text.justification \notin {"Left", "Right", "Center", "Top", "Bottom"}
             THEN Failed("KeyError")
             ELSE LET justification == IF mirrored THEN FlipJustification(text.justification)
                                       ELSE text.justification
                      font_size == GeneratorFontSize(gen, text.size_multiplier)
                      pos == GeneratorNamePosition(symbol.rotation, symbol.x, symbol.y,
                                                   gen.scale, <<text.x, text.y>>)
                  IN  Emitted(<<[tag |-> "text", content |-> symbol.instance_name,
                                 x |-> pos[1], y |-> pos[2],
                                 y_offset |-> BaselineOffset(justification, font_size),
                                 text_anchor |-> TextAnchor(justification),
                                 font_size |-> font_size, vertical |-> FALSE]>>)

\* The elements of one defined instance, from the outcome of its shapes and
\* of its name: the instance name, then the group of its shapes.
NameThenGroup(gen, symbol, shapes, name) ==
    IF shapes.raised # "None" THEN Failed(shapes.raised)
    ELSE IF name.raised # "None" THEN Failed(name.raised)
    ELSE Emitted(name.elements \o
                 <<[tag |-> "g",
                    transform |-> GeneratorSymbolTransform(symbol.rotation, symbol.x,
                                                           symbol.y, gen.scale),
                    children |-> shapes.elements]>>)

\* One defined instance.
GeneratorSymbol(gen, symbol, def) ==
    NameThenGroup(gen, symbol, GeneratorSymbolShapes(gen, def),
                  GeneratorInstanceName(gen, symbol, def))

NoSymbols == [raised |-> "None", elements |-> <<>>, warnings |-> <<>>]

\* The outcome of the loop of _add_symbols from the outcome of one instance
\* and that of the instances after it.
ThenSymbols(one, rest) ==
    IF one.raised # "None" THEN [NoSymbols EXCEPT !.raised = one.raised]
    ELSE [rest EXCEPT !.elements = one.elements \o @]

\* The outcome of the loop when its first instance is skipped with a warning.
WarnThenSymbols(symbol_name, rest) == [rest EXCEPT !.warnings = <<symbol_name>> \o @]

\* _add_symbols leaving its loop at the first instance without drawing data.
RECURSIVE GeneratorAddSymbols_StopsAtMissing(_, _, _)
GeneratorAddSymbols_StopsAtMissing(gen, instances, symbols_data) ==
    IF instances = <<>> THEN NoSymbols
    ELSE IF instances[1].symbol_name \notin DOMAIN symbols_data
    THEN WarnThenSymbols(instances[1].symbol_name, NoSymbols)
    ELSE ThenSymbols(GeneratorSymbol(gen, instances[1],
                                     symbols_data[instances[1].symbol_name]),
                     GeneratorAddSymbols_StopsAtMissing(gen, Tail(instances), symbols_data))

\* _add_symbols(dwg, symbols, symbols_data): [raised, elements, warnings];
\* an instance without drawing data gets a warning and is skipped.
RECURSIVE GeneratorAddSymbols(_, _, _)
GeneratorAddSymbols(gen, instances, symbols_data) ==
    IF instances = <<>> THEN NoSymbols
    ELSE IF instances[1].symbol_name \notin DOMAIN symbols_data
    THEN WarnThenSymbols(instances[1].symbol_name,
                         GeneratorAddSymbols(gen, Tail(instances), symbols_data))
    ELSE ThenSymbols(GeneratorSymbol(gen, instances[1],
                                     symbols_data[instances[1].symbol_name]),
                     GeneratorAddSymbols(gen, Tail(instances), symbols_data))

\* _add_texts(dwg, texts)
GeneratorAddTexts(gen, texts) ==
    IF gen.no_text THEN <<>>
    ELSE [i \in 1..Len(texts) |->
            LET font_size == GeneratorFontSize(gen, texts[i].size_multiplier)
            IN  [tag |-> "text", content |-> texts[i].text,
                 x |-> texts[i].x * gen.scale, y |-> texts[i].y * gen.scale,
                 y_offset |-> BaselineOffset(texts[i].justification, font_size),
                 text_anchor |-> TextAnchor(texts[i].justification),
                 font_size |-> font_size, vertical |-> FALSE]]

NoOutput ==
    [raised |-> "None", saved |-> FALSE,
     viewbox |-> [min_x |-> 0, min_y |-> 0, width |-> 0, height |-> 0],
     elements |-> <<>>, symbols |-> <<>>, warnings |-> <<>>]

\* generate adding the wires to those of the render before.
GeneratorLoad_KeepsWires(gen, schematic_data, symbols_data) ==
    [gen EXCEPT !.wires = @ \o DictGet(schematic_data, "wires", <<>>),
                !.symbols = DictGet(schematic_data, "symbols", <<>>),
                !.texts = DictGet(schematic_data, "texts", <<>>),
                !.flags = DictGet(schematic_data, "flags", <<>>),
                !.shapes = DictGet(schematic_data, "shapes", NoShapes),
                !.symbol_data = GeneratorSymbolData(symbols_data)]

\* The attributes generate stores on the generator before it draws.
GeneratorLoad(gen, schematic_data, symbols_data) ==
    [gen EXCEPT !.wires = DictGet(schematic_data, "wires", <<>>),
                !.symbols = DictGet(schematic_data, "symbols", <<>>),
                !.texts = DictGet(schematic_data, "texts", <<>>),
                !.flags = DictGet(schematic_data, "flags", <<>>),
                !.shapes = DictGet(schematic_data, "shapes", NoShapes),
                !.symbol_data = GeneratorSymbolData(symbols_data)]

\* What generate produces from the loaded generator and the outcomes of its
\* stages: the saved file, or the exception that ended it before the save
\* ('symbols' is the part of the elements that _add_symbols added).
GenerateOutput(self, viewbox, t_junctions, shapes, syms) ==
    IF \E s \in Range(AllShapes(self.shapes)) : ~s.has_coords
    THEN [NoOutput EXCEPT !.raised = "KeyError"]
    ELSE IF shapes.raised # "None"
    THEN [NoOutput EXCEPT !.raised = shapes.raised, !.viewbox = viewbox]
    ELSE IF syms.raised # "None"
    THEN [NoOutput EXCEPT !.raised = syms.raised, !.viewbox = viewbox,
                          !.warnings = syms.warnings]
    ELSE [raised |-> "None", saved |-> TRUE,
          viewbox |-> viewbox,
          elements |-> GeneratorWires(self) \o GeneratorDots(self, t_junctions)
                       \o shapes.elements \o syms.elements
                       \o GeneratorAddTexts(self, self.texts),
          symbols |-> syms.elements,
          warnings |-> syms.warnings]

\* generate after its first lines.
Generated(self, symbols_data) ==
    [self |-> self,
     symbols_data |-> CallerLibraryAfterGenerate(symbols_data),
     out |-> GenerateOutput(self, GeneratorViewbox(self),
                            GeneratorFindTJunctions(self.wires, self.symbols),
                            GeneratorAddShapes(self, self.shapes),
                            GeneratorAddSymbols(self, self.symbols, self.symbol_data))]

\* generate(schematic_data, output_path, symbols_data): the generator after
\* the call, the caller's library after the call, and what the call produced.
Generate(gen, schematic_data, symbols_data) ==
    Generated(GeneratorLoad(gen, schematic_data, symbols_data), symbols_data)

---------------------------------------------------------------------------
(* SymbolRenderer.render, the one-call form SVGRenderer uses, and          *)
(* SVGRenderer itself (src/renderers/svg_renderer.py).                     *)

\* The next call of a sequence of calls: skipped once one has raised.
Chain(result, Call(_)) == IF result.raised # "None" THEN result ELSE Call(result.self)

\* render(symbol, stroke_width): begin_symbol, set_transformation,
\* set_symbol_definition, set_window_overrides, render_shapes, render_texts,
\* render_component_name and render_component_value unless the symbol data
\* disables them, finish_symbol.  An exception is logged and re-raised.
SymbolRender(self, symbol, stroke_width) ==
    Chain(Chain(Chain(Chain(Chain(Chain(Chain(Chain(
        BeginSymbol(self),
        LAMBDA s : SetTransformation(s, symbol.rotation, symbol.translation)),
        LAMBDA s : SetSymbolDefinition(s, symbol.symbol_def)),
        LAMBDA s : SetWindowOverrides(s, symbol.window_overrides)),
        LAMBDA s : SymbolRenderShapes(s, symbol.shapes, stroke_width)),
        LAMBDA s : SymbolRenderTexts(s, symbol.texts)),
        LAMBDA s : IF symbol.no_component_name THEN Returned(s)
                   ELSE RenderComponentName(s, symbol.property_0)),
        LAMBDA s : IF symbol.no_component_value THEN Returned(s)
                   ELSE RenderComponentValue(s, symbol.property_3)),
        LAMBDA s : FinishSymbol(s))

ZeroBox == [min_x |-> 0, min_y |-> 0, width |-> 0, height |-> 0]
NoDrawing == [is_none |-> TRUE, viewbox |-> ZeroBox, elements |-> <<>>]
NoSchematic ==
    [keys |-> {}, wires |-> <<>>, symbols |-> <<>>, texts |-> <<>>, flags |-> <<>>,
     shapes |-> NoShapes]

\* ViewboxCalculator.calculate(schematic_data), in tenths of a unit: the
\* bounding box of wires, symbols (+-100), texts (+-50 / +-20), flags
\* (+-20 / +-10) and shapes, grown by 10% of its larger dimension, with a
\* floor of 100 on a zero dimension.
ViewboxCalculatorCalculate(data) ==
    LET xs == GeneratorBoundsX(data)
        ys == GeneratorBoundsY(data)
    IN  IF xs = {} THEN [min_x |-> 0, min_y |-> 0, width |-> 1000, height |-> 1000]
        ELSE LET width == SetMax(xs) - SetMin(xs)
                 height == SetMax(ys) - SetMin(ys)
                 padding == IF width > height THEN width ELSE height
             IN  [min_x |-> 10 * SetMin(xs) - padding,
                  min_y |-> 10 * SetMin(ys) - padding,
                  width |-> IF width = 0 THEN 1000 ELSE 10 * width + 2 * padding,
                  height |-> IF height = 0 THEN 1000 ELSE 10 * height + 2 * padding]

\* _apply_schematic_defaults: a copy of the schematic with every collection
\* present.
ApplySchematicDefaults(schematic_data) ==
    [keys |-> schematic_data.keys \cup {"wires", "symbols", "texts", "shapes", "flags"},
     wires |-> DictGet(schematic_data, "wires", <<>>),
     symbols |-> DictGet(schematic_data, "symbols", <<>>),
     texts |-> DictGet(schematic_data, "texts", <<>>),
     flags |-> DictGet(schematic_data, "flags", <<>>),
     shapes |-> DictGet(schematic_data, "shapes", NoShapes)]

Done(self) == [self |-> self, raised |-> "None", warnings |-> <<>>]
Threw(self, exc) == [self |-> self, raised |-> exc, warnings |-> <<>>]

\* load_schematic(schematic_data, symbol_data)
LoadSchematic(self, schematic_data, symbol_data) ==
    LET data == ApplySchematicDefaults(schematic_data)
    IN  Done([self EXCEPT !.schematic_data = [is_none |-> FALSE, data |-> data],
                          !.symbol_data = symbol_data,
                          !.view_box = [is_none |-> FALSE,
                                        box |-> ViewboxCalculatorCalculate(data)]])

\* create_drawing(output_path): a new drawing and new renderers; without a
\* view box the unpacking of None fails after the new drawing is assigned.
CreateDrawing(self) ==
    IF self.view_box.is_none
    THEN Threw([self EXCEPT !.dwg = [NoDrawing EXCEPT !.is_none = FALSE]], "TypeError")
    ELSE Done([self EXCEPT
            !.dwg = [is_none |-> FALSE, viewbox |-> self.view_box.box, elements |-> <<>>],
            !.renderers_ready = TRUE,
            !.symbol_renderer = NewSymbolRenderer(self.config)])

\* The guard of every render_* method: 'not self.schematic_data or not
\* self.dwg' raises ValueError; the loaded schematic is never empty, since
\* the defaults give it its five keys.
NotReady(self) == self.schematic_data.is_none \/ self.dwg.is_none

AddToDrawing(self, elements) == [self EXCEPT !.dwg.elements = @ \o elements]

\* WireRenderer.render(wire, stroke_width)
WireElement(wire, stroke_width) ==
    [tag |-> "line", x1 |-> wire.x1, y1 |-> wire.y1, x2 |-> wire.x2, y2 |-> wire.y2,
     stroke_width |-> stroke_width]

\* The elements of render_wires: a line per wire, then a dot per T-junction.
WireElements(ws, t_junctions, stroke_width, dot_size) ==
    [i \in 1..Len(ws) |-> WireElement(ws[i], stroke_width)]
    \o [i \in 1..Len(t_junctions) |->
           DotElement(t_junctions[i][1], t_junctions[i][2], dot_size)]

\* render_wires(dot_size_multiplier)
RenderWires(self, dot_size_multiplier) ==
    IF NotReady(self) THEN Threw(self, "ValueError")
    ELSE IF ~self.renderers_ready THEN Threw(self, "KeyError")
    ELSE Done(AddToDrawing(self,
            WireElements(self.schematic_data.data.wires,
                         RendererFindTJunctions(self.schematic_data.data.wires),
                         self.stroke_width, self.stroke_width * dot_size_multiplier)))

\* The data render_symbols hands to SymbolRenderer.render for one instance.
RenderData(self, symbol, symbol_def) ==
    [rotation |-> symbol.rotation,
     translation |-> <<symbol.x, symbol.y>>,
     shapes |-> Shapes(symbol_def.lines, symbol_def.circles, symbol_def.rectangles,
                       symbol_def.arcs),
     texts |-> symbol_def.texts,
     symbol_def |-> symbol_def,
     window_overrides |-> symbol.window_overrides,
     property_0 |-> symbol.instance_name,
     property_3 |-> symbol.value,
     no_component_name |-> self.config.no_component_name,
     no_component_value |-> self.config.no_component_value]

\* A definition with no line, circle, rectangle or arc.
TextOnly(symbol_def) ==
    symbol_def.lines = <<>> /\ symbol_def.circles = <<>>
    /\ symbol_def.rectangles = <<>> /\ symbol_def.arcs = <<>>

\* Whether render_symbols skips an instance with a warning: its name is
\* empty or not in the library.
NotInLibrary(self, symbol) ==
    symbol.symbol_name = "" \/ symbol.symbol_name \notin DOMAIN self.symbol_data

\* The loop of render_symbols over the instances, from the state of the
\* symbol renderer 'sr': an instance whose name is empty or not in the
\* library gets a warning and is skipped; a text-only definition is skipped
\* under no_nested_symbol_text; an exception of SymbolRenderer.render ends
\* the loop.
RECURSIVE RenderSymbolLoop(_, _, _)
\* The loop after SymbolRenderer.render ended as 'one' for an instance.
AfterSymbolRender(self, one, instances) ==
    IF one.raised # "None"
    THEN [self |-> one.self, raised |-> one.raised, warnings |-> <<>>]
    ELSE RenderSymbolLoop(self, one.self, instances)

RenderSymbolLoop(self, sr, instances) ==
    IF instances = <<>> THEN [self |-> sr, raised |-> "None", warnings |-> <<>>]
    ELSE IF NotInLibrary(self, instances[1])
    THEN WarnThenSymbols(instances[1].symbol_name,
                         RenderSymbolLoop(self, sr, Tail(instances)))
    ELSE IF self.config.no_nested_symbol_text
            /\ TextOnly(self.symbol_data[instances[1].symbol_name])
    THEN RenderSymbolLoop(self, sr, Tail(instances))
    ELSE AfterSymbolRender(self,
            SymbolRender(sr,
                         RenderData(self, instances[1],
                                    self.symbol_data[instances[1].symbol_name]),
                         self.stroke_width),
            Tail(instances))

\* render_symbols after its loop: what the symbol renderer added is in the
\* renderer's drawing.
SymbolsToDrawing(self, loop) ==
    [self |-> [self EXCEPT !.dwg.elements = loop.self.dwg,
                           !.symbol_renderer = [loop.self EXCEPT !.dwg = <<>>]],
     raised |-> loop.raised,
     warnings |-> loop.warnings]

\* render_symbols(): the symbol renderer draws into the renderer's drawing.
RenderSymbols(self) ==
    IF NotReady(self) THEN Threw(self, "ValueError")
    ELSE IF ~self.renderers_ready THEN Threw(self, "KeyError")
    ELSE SymbolsToDrawing(self,
            RenderSymbolLoop(self,
                             [self.symbol_renderer EXCEPT !.dwg = self.dwg.elements],
                             self.schematic_data.data.symbols))

\* render_texts without the test of no_spice_directive.
RenderSchematicText_IgnoresSpiceSwitch(self, text) ==
    IF text.type \notin {"comment", "spice"} THEN <<>>
    ELSE IF text.type = "comment" /\ self.config.no_schematic_comment THEN <<>>
    ELSE TextRendererRender(text, DefaultTextFontSize)

\* One schematic text as render_texts treats it: an unknown type is skipped,
\* a comment or a directive is skipped when its switch is on, any other is
\* rendered by the text renderer.
RenderSchematicText(self, text) ==
    IF text.type \notin {"comment", "spice"} THEN <<>>
    ELSE IF text.type = "comment" /\ self.config.no_schematic_comment THEN <<>>
    ELSE IF text.type = "spice" /\ self.config.no_spice_directive THEN <<>>
    ELSE TextRendererRender(text, DefaultTextFontSize)

RECURSIVE RenderSchematicTexts(_, _)
RenderSchematicTexts(self, texts) ==
    IF texts = <<>> THEN <<>>
    ELSE RenderSchematicText(self, texts[1]) \o RenderSchematicTexts(self, Tail(texts))

\* render_texts()
RenderTexts(self) ==
    IF NotReady(self) THEN Threw(self, "ValueError")
    ELSE IF ~self.renderers_ready THEN Threw(self, "KeyError")
    ELSE Done(AddToDrawing(self, RenderSchematicTexts(self, self.schematic_data.data.texts)))

\* The drawing and the outcome of render_shapes after its loops.
ShapesToDrawing(self, out) ==
    [self |-> AddToDrawing(self, out.elements), raised |-> out.raised, warnings |-> <<>>]

\* render_shapes(): lines, rectangles, circles, arcs; an exception of the
\* shape renderer ends the method, the shapes before it stay in the drawing.
RenderShapes(self) ==
    IF NotReady(self) THEN Threw(self, "ValueError")
    ELSE IF ~self.renderers_ready THEN Threw(self, "KeyError")
    ELSE ShapesToDrawing(self,
            ThenShapes(ThenShapes(ThenShapes(
                RenderShapeList(self.schematic_data.data.shapes.lines, "line",
                                self.stroke_width),
                RenderShapeList(self.schematic_data.data.shapes.rectangles, "rectangle",
                                self.stroke_width)),
                RenderShapeList(self.schematic_data.data.shapes.circles, "circle",
                                self.stroke_width)),
                RenderShapeList(self.schematic_data.data.shapes.arcs, "arc",
                                self.stroke_width)))

---------------------------------------------------------------------------
(* FlagRenderer (src/renderers/flag_renderer.py) and render_flags.         *)

Flag(type, x, y, net_name, orientation) ==
    [type |-> type, x |-> x, y |-> y, net_name |-> net_name,
     orientation |-> orientation, direction |-> "None"]

IOPin(x, y, net_name, orientation, direction) ==
    [Flag("io_pin", x, y, net_name, orientation) EXCEPT !.direction = direction]

\* The transform attribute of a flag group: translate, then rotate.
FlagTransform(flag) ==
    <<<<"translate", flag.x, flag.y>>, <<"rotate", flag.orientation>>>>

Group(class, transform, children) ==
    [tag |-> "g", class |-> class, transform |-> transform, children |-> children]

\* The lines of the ground flag definition: the bar and the two sides of
\* the V below it.
FlagLine(x1, y1, x2, y2, stroke_width) ==
    [tag |-> "line", x1 |-> x1, y1 |-> y1, x2 |-> x2, y2 |-> y2,
     stroke_width |-> stroke_width]

GroundFlagLines(stroke_width) ==
    <<FlagLine(-16, 0, 16, 0, stroke_width),
      FlagLine(-16, 0, 0, 16, stroke_width),
      FlagLine(16, 0, 0, 16, stroke_width)>>

\* The size index of the net label text definition.
NetLabelFontSize == 2

\* FlagRenderer.render_ground_flag(flag, g): a translated and rotated group
\* of the definition's lines, added to g.
RenderGroundFlag(flag, stroke_width) ==
    Emitted(<<Group("ground-flag", <<>>,
                    <<Group("", FlagTransform(flag), GroundFlagLines(stroke_width))>>)>>)

\* The text group of a net label: counter-rotated at 180 degrees.
TextGroup(flag, children) ==
    Group("text-group", IF flag.orientation = 180 THEN <<<<"rotate", -180>>>> ELSE <<>>,
          children)

\* The dictionary render_net_label gives to the text renderer.
NetLabelText(flag) ==
    Text(0, 0, flag.net_name, "Bottom", NetLabelFontSize, "comment")

\* FlagRenderer.render_net_label(flag, g): g gets the transform; the call
\* TextRenderer.render(text_properties, text_group) binds the text group to
\* the parameter font_size, which render multiplies by the size multiplier
\* once it is past the early return for an empty text: a TypeError, before
\* anything is added to g.
RenderNetLabel(flag) ==
    IF NetLabelText(flag).text = ""
    THEN Emitted(<<Group("net-label", FlagTransform(flag), <<TextGroup(flag, <<>>)>>)>>)
    ELSE Failed("TypeError")

\* FlagRenderer.render_io_pin(flag, g): the body is 'pass'; g stays empty.
RenderIOPin(flag) == Emitted(<<Group("io-pin", <<>>, <<>>)>>)

\* One flag of render_flags: the group of its type is added to the drawing;
\* a flag of an unknown type is skipped with a warning.
RenderFlag(flag, stroke_width) ==
    CASE flag.type = "gnd" -> RenderGroundFlag(flag, stroke_width)
      [] flag.type = "net_label" -> RenderNetLabel(flag)
      [] flag.type = "io_pin" -> RenderIOPin(flag)
      [] OTHER -> Emitted(<<>>)

\* The loop of render_flags: an exception ends it, the groups before it
\* stay in the drawing.
RECURSIVE RenderFlagList(_, _)
RenderFlagList(list, stroke_width) ==
    IF list = <<>> THEN Emitted(<<>>)
    ELSE ThenShapes(RenderFlag(list[1], stroke_width),
                    RenderFlagList(Tail(list), stroke_width))

\* render_flags()
RenderFlags(self) ==
    IF NotReady(self) THEN Threw(self, "ValueError")
    ELSE IF ~self.renderers_ready THEN Threw(self, "KeyError")
    ELSE ShapesToDrawing(self,
            RenderFlagList(self.schematic_data.data.flags, self.stroke_width))

---------------------------------------------------------------------------
(* ASCParser._parse_text: a TEXT line is the record of its attributes, its *)
(* content marker and its content; size is [present, numeric, index].      *)

TEXTLine(x, y, justification, size, marker, content) ==
    [word |-> "TEXT", x |-> x, y |-> y, justification |-> justification, size |-> size,
     marker |-> marker, content |-> content]

SizeIndex(index) == [present |-> TRUE, numeric |-> TRUE, index |-> index]
NoSizeIndex == [present |-> FALSE, numeric |-> FALSE, index |-> 0]
BadSizeIndex == [present |-> TRUE, numeric |-> FALSE, index |-> 0]

\* The multiplier _parse_text stores for a size attribute, times 10000:
\* size_multipliers.get(size_index, size_multipliers[2]), or the entry of
\* index 2 without a size or with one that is not an integer.
ParsedSizeMultiplier(size) ==
    IF size.present /\ size.numeric THEN SizeMultiplier(size.index) ELSE SizeMultiplier(2)

\* The stored multiplier as TextRenderer.render uses it, a key of
\* SIZE_MULTIPLIERS: the float equals the key 1, 2, 5 or 7 when it is 1.0,
\* 2.0, 5.0 or 7.0, and is no key of the table (-1 here) otherwise.
AsKey(multiplier) ==
    IF multiplier % 10000 = 0 THEN multiplier \div 10000 ELSE -1

\* _parse_text(line): the text dictionary appended to self.texts; '!' marks a
\* SPICE directive, ';' a comment.
ParseText(line) ==
    Text(line.x, line.y, line.content, line.justification,
         AsKey(ParsedSizeMultiplier(line.size)),
         IF line.marker = "!" THEN "spice" ELSE "comment")

---------------------------------------------------------------------------
(* The flag functions of src/generators (flag_renderer.py,                 *)
(* net_label_renderer.py).  Text coordinates and font sizes are in units   *)
(* of 1/10000 pixel.                                                       *)

\* FlagRenderer.NET_LABEL_DISTANCE, the distance callers pass.
NetLabelDistance == 52

\* text_distance of render_io_pin.
IOPinTextDistance == 52

ScaledTransform(flag, scale) ==
    <<<<"translate", flag.x * scale, flag.y * scale>>, <<"rotate", flag.orientation>>>>

FlagTextElement(content, x, y, font_size) ==
    [tag |-> "text", content |-> content, x |-> x, y |-> y, text_anchor |-> "middle",
     font_size |-> font_size]

\* net_label_renderer.render_net_label(dwg, flag, scale, font_size,
\* size_multipliers, net_label_distance): a translated and rotated group
\* whose only child is the text group, counter-rotated at 180 degrees, with
\* the net name net_label_distance above the origin of the group.
GeneratorRenderNetLabel(flag, scale, font_size, net_label_distance) ==
    <<Group("", ScaledTransform(flag, scale),
            <<Group("", IF flag.orientation = 180 THEN <<<<"rotate", -180>>>> ELSE <<>>,
                    <<FlagTextElement(flag.net_name, 0,
                                      (0 - net_label_distance) * scale * 10000,
                                      font_size * SizeMultiplier(2))>>)>>)>>

\* flag_renderer.render_ground_flag(dwg, flag, scale, stroke_width)
GeneratorRenderGroundFlag(flag, scale, stroke_width) ==
    <<Group("", ScaledTransform(flag, scale),
            <<FlagLine(-16 * scale, 0, 16 * scale, 0, stroke_width),
              FlagLine(-16 * scale, 0, 0, 16 * scale, stroke_width),
              FlagLine(16 * scale, 0, 0, 16 * scale, stroke_width)>>)>>

\* The lines of an IO pin by direction; a direction other than 'BiDir' and
\* 'In' gets the lines of 'Out'.
IOPinLines(direction, scale, stroke_width) ==
    IF direction = "BiDir"
    THEN <<FlagLine(16 * scale, 16 * scale, 0, 0, stroke_width),
           FlagLine(-16 * scale, 84 * scale, -16 * scale, 16 * scale, stroke_width),
           FlagLine(16 * scale, 16 * scale, 16 * scale, 84 * scale, stroke_width),
           FlagLine(0, 0, -16 * scale, 16 * scale, stroke_width),
           FlagLine(0, 100 * scale, -16 * scale, 84 * scale, stroke_width),
           FlagLine(0, 100 * scale, 16 * scale, 84 * scale, stroke_width)>>
    ELSE IF direction = "In"
    THEN <<FlagLine(0, 0, 16 * scale, 16 * scale, stroke_width),
           FlagLine(16 * scale, 16 * scale, 16 * scale, 80 * scale, stroke_width),
           FlagLine(16 * scale, 80 * scale, -16 * scale, 80 * scale, stroke_width),
           FlagLine(-16 * scale, 80 * scale, -16 * scale, 16 * scale, stroke_width),
           FlagLine(-16 * scale, 16 * scale, 0, 0, stroke_width)>>
    ELSE <<FlagLine(-16 * scale, 80 * scale, 0, 96 * scale, stroke_width),
           FlagLine(16 * scale, 16 * scale, 16 * scale, 80 * scale, stroke_width),
           FlagLine(16 * scale, 16 * scale, -16 * scale, 16 * scale, stroke_width),
           FlagLine(-16 * scale, 80 * scale, -16 * scale, 16 * scale, stroke_width),
           FlagLine(0, 96 * scale, 16 * scale, 80 * scale, stroke_width),
           FlagLine(0, 16 * scale, 0, 0, stroke_width)>>

\* The position and the rotation of the name of an IO pin: text_distance
\* away from the pin along its orientation, shifted by the compensation
\* (in tenths) times the font size.
IOPinTextPlace(io_pin, scale, font_size, compensation) ==
    LET shift == (font_size * compensation) \div 10
    IN  CASE io_pin.orientation = 0 ->
                [x |-> io_pin.x * scale * 10000 + shift,
                 y |-> (io_pin.y + IOPinTextDistance) * scale * 10000, rotation |-> -90]
          [] io_pin.orientation = 90 ->
                [x |-> (io_pin.x - IOPinTextDistance) * scale * 10000,
                 y |-> io_pin.y * scale * 10000 + shift, rotation |-> 0]
          [] io_pin.orientation = 180 ->
                [x |-> io_pin.x * scale * 10000 + shift,
                 y |-> (io_pin.y - IOPinTextDistance) * scale * 10000, rotation |-> -90]
          [] OTHER ->
                [x |-> (io_pin.x + IOPinTextDistance) * scale * 10000,
                 y |-> io_pin.y * scale * 10000 + shift, rotation |-> 0]

IOPinTextGroup(io_pin, place, font_size) ==
    Group("", IF place.rotation # 0 THEN <<<<"rotate", place.rotation, place.x, place.y>>>>
              ELSE <<>>,
          <<FlagTextElement(io_pin.net_name, place.x, place.y, font_size)>>)

\* flag_renderer.render_io_pin(dwg, io_pin, scale, stroke_width, font_size,
\* size_multipliers, text_centering_compensation): the translated and
\* rotated group of the lines, then the group of the name.
GeneratorRenderIOPin(io_pin, scale, stroke_width, font_size, compensation) ==
    <<Group("", ScaledTransform(io_pin, scale),
            IOPinLines(io_pin.direction, scale, stroke_width)),
      IOPinTextGroup(io_pin,
                     IOPinTextPlace(io_pin, scale, font_size * SizeMultiplier(2),
                                    compensation),
                     font_size * SizeMultiplier(2))>>

\* One flag of the first loop of render_flags: net labels and ground flags.
GeneratorRenderFlag(flag, scale, stroke_width, font_size) ==
    IF flag.type = "net_label"
    THEN GeneratorRenderNetLabel(flag, scale, font_size, NetLabelDistance)
    ELSE IF flag.type = "gnd" THEN GeneratorRenderGroundFlag(flag, scale, stroke_width)
    ELSE <<>>

\* flag_renderer.render_flags(dwg, flags, io_pins, scale, stroke_width,
\* font_size, size_multipliers, net_label_distance,
\* text_centering_compensation): the flags, then the IO pins.
RECURSIVE GeneratorRenderFlags(_, _, _, _, _, _)
GeneratorRenderFlags(flags, io_pins, scale, stroke_width, font_size, compensation) ==
    IF flags # <<>>
    THEN GeneratorRenderFlag(flags[1], scale, stroke_width, font_size)
         \o GeneratorRenderFlags(Tail(flags), io_pins, scale, stroke_width, font_size,
                                 compensation)
    ELSE IF io_pins # <<>>
    THEN GeneratorRenderIOPin(io_pins[1], scale, stroke_width, font_size, compensation)
         \o GeneratorRenderFlags(flags, Tail(io_pins), scale, stroke_width, font_size,
                                 compensation)
    ELSE <<>>

---------------------------------------------------------------------------
(* ASCParser (src/parsers/asc_parser.py): the FLAG and IOPIN lines.  A     *)
(* line is the record of its words; the parser is the record               *)
(* self = [flags, io_pins, flag_positions, texts].                         *)

FLAGLine(x, y, net_name) == [word |-> "FLAG", x |-> x, y |-> y, name |-> net_name]
IOPINLine(x, y, direction) == [word |-> "IOPIN", x |-> x, y |-> y, name |-> direction]

\* A WIRE line: 'WIRE x1 y1 x2 y2'.
WIRELine(x1, y1, x2, y2) ==
    [word |-> "WIRE", x |-> x1, y |-> y1, x2 |-> x2, y2 |-> y2, name |-> ""]

NewASCParser ==
    [wires |-> <<>>, flags |-> <<>>, io_pins |-> <<>>, flag_positions |-> {}, texts |-> <<>>]

\* _parse_wire(line): the wire is appended to self.wires.
ParseWire(self, line) ==
    [self EXCEPT !.wires = Append(@, [x1 |-> line.x, y1 |-> line.y,
                                      x2 |-> line.x2, y2 |-> line.y2])]

\* round(angle / 90) for the angle of atan2(dy, dx) brought into 0..360:
\* the quarter turn nearest to the direction (dx, dy); a diagonal, half way
\* between two quarter turns, goes to the even one.
NearestQuarterTurn(dx, dy) ==
    IF dx = 0 /\ dy = 0 THEN 0
    ELSE IF Abs(dy) < Abs(dx) THEN (IF dx > 0 THEN (IF dy >= 0 THEN 0 ELSE 4) ELSE 2)
    ELSE IF Abs(dx) < Abs(dy) THEN (IF dy > 0 THEN 1 ELSE 3)
    ELSE IF dx > 0 THEN (IF dy > 0 THEN 0 ELSE 4)
    ELSE 2

\* _get_wire_direction(x1, y1, x2, y2): the nearest quarter turn in degrees,
\* turned by 90 degrees.
GetWireDirection(x1, y1, x2, y2) ==
    (NearestQuarterTurn(x2 - x1, y2 - y1) * 90 + 90) % 360

\* _get_connected_wires(x, y): the wires of self.wires with an end at (x, y),
\* in their order.
WireEndsAt(wire, x, y) ==
    (wire.x1 = x /\ wire.y1 = y) \/ (wire.x2 = x /\ wire.y2 = y)

RECURSIVE ConnectedOf(_, _, _)
ConnectedOf(list, x, y) ==
    IF list = <<>> THEN <<>>
    ELSE (IF WireEndsAt(list[1], x, y) THEN <<list[1]>> ELSE <<>>)
         \o ConnectedOf(Tail(list), x, y)

GetConnectedWires(self, x, y) == ConnectedOf(self.wires, x, y)

\* _calculate_flag_orientation(x, y) when no wire ends at (x, y).
UnconnectedOrientation == 0

\* The direction of a connected wire, seen from (x, y) towards its other end.
DirectionFrom(wire, x, y) ==
    IF wire.x1 = x /\ wire.y1 = y
    THEN GetWireDirection(x, y, wire.x2, wire.y2)
    ELSE GetWireDirection(x, y, wire.x1, wire.y1)

\* The choice of the orientation from the directions of the connected wires.
OrientationOf(wire_directions) ==
    IF wire_directions = <<>> THEN UnconnectedOrientation
    ELSE IF \A i \in 1..Len(wire_directions) : wire_directions[i] \in {90, 270} THEN 270
    ELSE IF \A i \in 1..Len(wire_directions) : wire_directions[i] \in {0, 180} THEN 90
    ELSE wire_directions[1]

\* _calculate_flag_orientation(x, y), from the wires parsed so far.
CalculateFlagOrientation(self, x, y) ==
    OrientationOf([i \in 1..Len(GetConnectedWires(self, x, y)) |->
                      DirectionFrom(GetConnectedWires(self, x, y)[i], x, y)])

\* _parse_flag(line): nothing at a position already flagged; else a 'gnd'
\* flag for the net name '0' and a 'net_label' flag for any other.
ParseFlag(self, line) ==
    IF <<line.x, line.y>> \in self.flag_positions THEN self
    ELSE [self EXCEPT
            !.flags = Append(@, Flag(IF line.name = "0" THEN "gnd" ELSE "net_label",
                                     line.x, line.y, line.name,
                                     CalculateFlagOrientation(self, line.x, line.y))),
            !.flag_positions = @ \cup {<<line.x, line.y>>}]

\* _parse_flag_and_iopin(flag_line, iopin_line): nothing at a position
\* already flagged or when the coordinates of the two lines differ; else a
\* 'net_label' flag and an IO pin.
ParseFlagAndIOPin(self, flag_line, iopin_line) ==
    IF <<flag_line.x, flag_line.y>> \in self.flag_positions THEN self
    ELSE IF <<flag_line.x, flag_line.y>> # <<iopin_line.x, iopin_line.y>> THEN self
    ELSE [self EXCEPT
            !.flags = Append(@, Flag("net_label", flag_line.x, flag_line.y, flag_line.name,
                                     CalculateFlagOrientation(self, flag_line.x,
                                                              flag_line.y))),
            !.flag_positions = @ \cup {<<flag_line.x, flag_line.y>>},
            !.io_pins = Append(@, [x |-> flag_line.x, y |-> flag_line.y,
                                   net_name |-> flag_line.name,
                                   direction |-> iopin_line.name,
                                   orientation |->
                                       CalculateFlagOrientation(self, flag_line.x,
                                                                flag_line.y)])]

\* Whether line i is a FLAG line with an IOPIN line right after it.
FollowedByIOPin(lines, i) ==
    lines[i].word = "FLAG" /\ i + 1 <= Len(lines) /\ lines[i + 1].word = "IOPIN"

\* The loop of parse() from line i: a FLAG before an IOPIN line takes both
\* lines, any other FLAG is parsed alone, a WIRE line adds a wire, a line of
\* another kind adds neither.
RECURSIVE ParseLines(_, _, _)
ParseLines(self, lines, i) ==
    IF i > Len(lines) THEN self
    ELSE IF FollowedByIOPin(lines, i)
    THEN ParseLines(ParseFlagAndIOPin(self, lines[i], lines[i + 1]), lines, i + 2)
    ELSE IF lines[i].word = "FLAG"
    THEN ParseLines(ParseFlag(self, lines[i]), lines, i + 1)
    ELSE IF lines[i].word = "WIRE"
    THEN ParseLines(ParseWire(self, lines[i]), lines, i + 1)
    ELSE ParseLines(self, lines, i + 1)

\* parse(): the flags and the IO pins of the file.
Parse(lines) == ParseLines(NewASCParser, lines, 1)

---------------------------------------------------------------------------
(* SVGRenderer (src/renderers/svg_renderer.py), continued.                 *)

\* save(): ValueError without a drawing.
Save(self) == IF self.dwg.is_none THEN Threw(self, "ValueError") ELSE Done(self)

\* SVGRenderer(config), stroke width as given to set_stroke_width.
NewSVGRenderer(config, stroke_width) ==
    [config |-> config, stroke_width |-> stroke_width,
     schematic_data |-> [is_none |-> TRUE, data |-> NoSchematic],
     symbol_data |-> EmptyLibrary,
     view_box |-> [is_none |-> TRUE, box |-> ZeroBox],
     dwg |-> NoDrawing,
     renderers_ready |-> FALSE,
     symbol_renderer |-> NewSymbolRenderer(config)]

\* The methods the integration tests call on one SVGRenderer for a render.
RendererSteps ==
    <<"load_schematic", "create_drawing", "render_wires", "render_symbols",
      "render_texts", "render_shapes", "save">>

\* One method of the pass, with the arguments of this render.
RendererStep(self, call, step) ==
    CASE step = "load_schematic" ->
            LoadSchematic(self, call.schematic_data, call.symbol_data)
      [] step = "create_drawing" -> CreateDrawing(self)
      [] step = "render_wires" -> RenderWires(self, call.dot_size_multiplier)
      [] step = "render_symbols" -> RenderSymbols(self)
      [] step = "render_texts" -> RenderTexts(self)
      [] step = "render_shapes" -> RenderShapes(self)
      [] step = "save" -> Save(self)

\* The pass so far, after a method ended as 'result': the renderer, the
\* exception, the warnings, and the elements render_symbols added.
AfterStep(pass, result, step) ==
    [self |-> result.self,
     raised |-> result.raised,
     warnings |-> pass.warnings \o result.warnings,
     symbols |-> IF step = "render_symbols"
                 THEN SubSeq(result.self.dwg.elements, Len(pass.self.dwg.elements) + 1,
                             Len(result.self.dwg.elements))
                 ELSE pass.symbols]

\* The methods in order; the first exception ends the pass.
RECURSIVE RendererPass(_, _, _)
RendererPass(pass, call, steps) ==
    IF steps = <<>> \/ pass.raised # "None" THEN pass
    ELSE RendererPass(AfterStep(pass, RendererStep(pass.self, call, steps[1]), steps[1]),
                      call, Tail(steps))

\* What a pass produced: the file exists only if save was reached.
PassOutput(last) ==
    [self |-> last.self,
     out |-> [raised |-> last.raised,
              saved |-> last.raised = "None",
              viewbox |-> last.self.dwg.viewbox,
              elements |-> IF last.raised = "None" THEN last.self.dwg.elements ELSE <<>>,
              symbols |-> IF last.raised = "None" THEN last.symbols ELSE <<>>,
              warnings |-> last.warnings]]

\* The caller's pass over one SVGRenderer: load_schematic, create_drawing,
\* render_wires, render_symbols, render_texts, render_shapes, save.
RendererRender(svg, schematic_data, symbol_data, dot_size_multiplier) ==
    PassOutput(RendererPass(
        [self |-> svg, raised |-> "None", warnings |-> <<>>, symbols |-> <<>>],
        [schematic_data |-> schematic_data, symbol_data |-> symbol_data,
         dot_size_multiplier |-> dot_size_multiplier],
        RendererSteps))

---------------------------------------------------------------------------
(* The earlier SVGRenderer (src/generators/svg_renderer.py): load_schematic. *)

NoLegacyBox == [is_none |-> TRUE, finite |-> FALSE, box |-> ZeroBox]

\* SVGRenderer() of src/generators.
NewLegacyRenderer ==
    [schematic_data |-> [is_none |-> TRUE, data |-> NoSchematic],
     symbol_data |-> EmptyLibrary,
     view_box |-> NoLegacyBox]

\* _calculate_viewbox(), in tenths of a unit: the bounds of wires and shapes
\* (infinite when there is none), 10% of the larger dimension as padding, 100
\* for a dimension that is zero after the padding.
LegacyCalculateViewbox(data) ==
    LET xs == UNION {{w.x1, w.x2} : w \in Range(data.wires)}
              \cup UNION {{s.x1, s.x2} : s \in Range(AllShapes(data.shapes))}
        ys == UNION {{w.y1, w.y2} : w \in Range(data.wires)}
              \cup UNION {{s.y1, s.y2} : s \in Range(AllShapes(data.shapes))}
    IN  IF xs = {} THEN [is_none |-> FALSE, finite |-> FALSE, box |-> ZeroBox]
        ELSE LET width == SetMax(xs) - SetMin(xs)
                 height == SetMax(ys) - SetMin(ys)
                 padding == IF width > height THEN width ELSE height
             IN  [is_none |-> FALSE, finite |-> TRUE,
                  box |-> [min_x |-> 10 * SetMin(xs) - padding,
                           min_y |-> 10 * SetMin(ys) - padding,
                           width |-> IF 10 * width + 2 * padding = 0 THEN 1000
                                     ELSE 10 * width + 2 * padding,
                           height |-> IF 10 * height + 2 * padding = 0 THEN 1000
                                      ELSE 10 * height + 2 * padding]]

\* The caller's schematic after load_schematic: the keys 'wires', 'symbols',
\* 'texts' and 'shapes' it lacked are added to it, each with an empty value.
LegacySchematicAfterLoad(schematic_data) ==
    [schematic_data EXCEPT !.keys = @ \cup {"wires", "symbols", "texts", "shapes"}]

\* load_schematic(schematic_data, symbol_data): the renderer keeps the
\* caller's dictionary itself; a shape without coordinates is a KeyError of
\* the view box calculation, after the dictionary was stored.
LegacyLoadSchematic(self, schematic_data, symbol_data) ==
    LET data == LegacySchematicAfterLoad(schematic_data)
        stored == [self EXCEPT !.schematic_data = [is_none |-> FALSE, data |-> data],
                               !.symbol_data = symbol_data]
    IN  IF \E s \in Range(AllShapes(data.shapes)) : ~s.has_coords
        THEN [self |-> stored, schematic_data |-> data, raised |-> "KeyError"]
        ELSE [self |-> [stored EXCEPT !.view_box = LegacyCalculateViewbox(data)],
              schematic_data |-> data, raised |-> "None"]

\* SVGGenerator(stroke_width, dot_size_multiplier, scale, font_size, no_text);
\* the attributes generate assigns do not exist yet.
NewSVGGenerator(stroke_width, dot_size_multiplier, scale, font_size, no_text) ==
    [stroke_width |-> stroke_width, dot_size_multiplier |-> dot_size_multiplier,
     scale |-> scale, font_size |-> font_size, no_text |-> no_text,
     wires |-> <<>>, symbols |-> <<>>, texts |-> <<>>, flags |-> <<>>,
     shapes |-> NoShapes, symbol_data |-> EmptyLibrary]

---------------------------------------------------------------------------
(* The state of each component before it is used.                          *)

NoCall == [op |-> "none", args |-> <<>>, raised |-> "None"]

IdleSym ==
    /\ symbolRenderer = NewSymbolRenderer(DefaultConfig)
    /\ lastCall = NoCall
    /\ nCalls = 0
    /\ inSpan = FALSE

NoTransform == [called |-> FALSE, transform |-> <<>>]
NoPosition == [called |-> FALSE, pos |-> <<0, 0>>]

IdlePlace ==
    /\ placeSymbol = [rotation |-> Rot("R", 0), x |-> 0, y |-> 0]
    /\ placePoint = <<0, 0>>
    /\ generatorGroup = NoTransform
    /\ rendererGroup = NoTransform
    /\ namePosition = NoPosition

\* Constructor arguments of the generator and the renderer.
DefaultFontSize == 22
DotSizeMultiplier == 2

IdleRender ==
    /\ schematic = NoSchematic
    /\ library = EmptyLibrary
    /\ svgGenerator = NewSVGGenerator(DefaultStrokeWidth, DotSizeMultiplier, 1,
                                      DefaultFontSize, FALSE)
    /\ svgRenderer = NewSVGRenderer(DefaultConfig, DefaultStrokeWidth)
    /\ legacyRenderer = NewLegacyRenderer
    /\ renders = <<>>


NoRendererCall == [op |-> "none", raised |-> "None", completed |-> {}, before |-> 0]

IdleCalls ==
    /\ renderer = NewSVGRenderer(DefaultConfig, DefaultStrokeWidth)
    /\ rendererCall = NoRendererCall
    /\ completed = {}
    /\ rendererCalls = 0


NotParsed == [done |-> FALSE, flags |-> <<>>, io_pins |-> <<>>, texts |-> <<>>]

IdleParse ==
    /\ ascLines = <<>>
    /\ parsed = NotParsed


NoFlagDrawn == [by |-> "none", raised |-> "None", elements |-> <<>>]

IdleFlags ==
    /\ flagInput = Flag("gnd", 0, 0, "0", 0)
    /\ flagScale = 1
    /\ flagDrawn = NoFlagDrawn


NoTextDrawn == [by |-> "none", raised |-> "None", elements |-> <<>>]

\* BaseRenderer.DEFAULT_BASE_FONT_SIZE
DefaultBaseFontSize == 16

IdleText ==
    /\ textLine = TEXTLine(0, 0, "Left", NoSizeIndex, ";", "")
    /\ textRecord = Text(0, 0, "", "Left", 2, "comment")
    /\ textSource = "caller"
    /\ baseFontSize = DefaultBaseFontSize
    /\ textDrawn = NoTextDrawn


NoRectDrawn == [by |-> "none", raised |-> "None", elements |-> <<>>]

IdleRect ==
    /\ rectInput = Shape(0, 0, 0, 0, DashNone)
    /\ rectScale = 1
    /\ rectStrokeWidth = 1
    /\ rectDrawn = NoRectDrawn


NoArcDrawn == [by |-> "none", raised |-> "None", elements |-> <<>>]

IdleArc ==
    /\ arcInput = Arc(0, 0, 0, 0, 0, 0, DashNone)
    /\ arcScale = 1
    /\ arcDrawn = NoArcDrawn


NoViewbox == [by |-> "none", raised |-> "None", finite |-> TRUE, unit |-> 1, box |-> ZeroBox]

IdleViewbox ==
    /\ vbSchematic = NoSchematic
    /\ vbScale = 1
    /\ vbBox = NoViewbox


NoSymbolParsed == [called |-> FALSE, symbols |-> <<>>, warnings |-> <<>>]
NoSymbolPlaced == [called |-> FALSE, raised |-> "None", transform |-> <<>>]

IdleSymbolLine ==
    /\ symbolLine = [name |-> "", x |-> 0, y |-> 0, coords_ok |-> TRUE,
                     has_rotation |-> FALSE, rotation |-> Rot("R", 0)]
    /\ symbolParsed = NoSymbolParsed
    /\ symbolPlaced = NoSymbolPlaced


IdleFlagFile ==
    /\ flagFile = <<>>
    /\ flagParses = <<>>


NoOrderEmitted == [by |-> "none", raised |-> "None", elements |-> <<>>]

IdleOrder ==
    /\ orderSchematic = NoSchematic
    /\ orderEmitted = NoOrderEmitted


IdleFontSize ==
    /\ fontRenderer = [kind |-> "none", base_font_size |-> DefaultBaseFontSize,
                       text_renderer |-> [base_font_size |-> DefaultBaseFontSize]]
    /\ fontAssigned = <<>>
    /\ fontRaised = "None"


IdleAsy ==
    /\ asyParser = [file |-> <<>>, lines |-> <<>>, circles |-> <<>>, rectangles |-> <<>>,
                    arcs |-> <<>>, texts |-> <<>>]
    /\ asyReturned = <<>>

---------------------------------------------------------------------------
(* Specification SpecTJ: both T-junction detectors on the same wires.      *)

NotCalled == [called |-> FALSE, points |-> <<>>]

IdleTJ ==
    /\ wires = <<>>
    /\ symbols = <<>>
    /\ tjGenerator = NotCalled
    /\ tjRenderer = NotCalled

InitTJ ==
    /\ wires \in SeqsUpTo(WireInputs, MaxWires)
    /\ symbols \in TerminalSymbolInputs
    /\ tjGenerator = NotCalled
    /\ tjRenderer = NotCalled
    /\ IdleSym
    /\ IdlePlace
    /\ IdleRender
    /\ IdleCalls
    /\ IdleParse
    /\ IdleFlags
    /\ IdleText
    /\ IdleRect
    /\ IdleArc
    /\ IdleViewbox
    /\ IdleSymbolLine
    /\ IdleFlagFile
    /\ IdleOrder
    /\ IdleFontSize
    /\ IdleAsy

CallGeneratorFindTJunctions ==
    /\ ~tjGenerator.called
    /\ tjGenerator' = [called |-> TRUE, points |-> GeneratorFindTJunctions(wires, symbols)]
    /\ UNCHANGED <<wires, symbols, tjRenderer, othersTJ>>

CallRendererFindTJunctions ==
    /\ ~tjRenderer.called
    /\ tjRenderer' = [called |-> TRUE, points |-> RendererFindTJunctions(wires)]
    /\ UNCHANGED <<wires, symbols, tjGenerator, othersTJ>>

NextTJ == CallGeneratorFindTJunctions \/ CallRendererFindTJunctions

SpecTJ == InitTJ /\ [][NextTJ]_vars

\* C1: a point is reported as a T-junction only if at least three wire-ends
\* coincide there and the incident wires show at least three distinct
\* normalized directions, in both detectors (the generator's and the
\* renderer's).
C1_ReportedOnlyWithThreeDirections ==
    /\ \A p \in Range(tjGenerator.points) :
              EndCount(wires, p) >= 3 /\ Cardinality(WireDirections(wires, p)) >= 3
    /\ \A p \in Range(tjRenderer.points) :
              EndCount(wires, p) >= 3 /\ Cardinality(WireDirections(wires, p)) >= 3

\* The part of C1 that the generator's detector satisfies.
C1_GeneratorReportsOnlyWithThreeDirections ==
    \A p \in Range(tjGenerator.points) :
            EndCount(wires, p) >= 3 /\ Cardinality(WireDirections(wires, p)) >= 3

---------------------------------------------------------------------------
(* Specification SpecSym: a caller drives one SymbolRenderer method by     *)
(* method, in any order, for at most MaxCalls calls.                       *)

MaxCalls == 5

ConfigInputs ==
    {DefaultConfig, Config(TRUE, FALSE, FALSE), Config(FALSE, TRUE, FALSE),
     Config(FALSE, FALSE, TRUE)}
RotationInputs == {Rot("R", 0), Rot("R", 90), Rot("M", 270), RotInvalid}
TranslationInputs == {<<32, 48>>}
DefInputs == {DefEmpty, DefNoWindows, DefWindow0, DefWindow3, DefWindow03}
OverrideInputs == {NoWindows, OverridesInt0, OverridesStr0, OverridesBoth0}
ShapesInputs ==
    {Shapes(<<GoodLine>>, <<>>, <<>>, <<>>),
     Shapes(<<DashedLine, BadStyleLine, GoodLine>>, <<>>, <<>>, <<>>),
     Shapes(<<>>, <<NoCoordsLine>>, <<>>, <<>>)}
TextsInputs == {<<Text(8, 8, "A", "Left", 2, "comment")>>}
NameInputs == {"R1", ""}
ValueInputs == {"10k"}

InitSym ==
    /\ symbolRenderer \in {NewSymbolRenderer(c) : c \in ConfigInputs}
    /\ lastCall = NoCall
    /\ nCalls = 0
    /\ inSpan = FALSE
    /\ IdleTJ
    /\ IdlePlace
    /\ IdleRender
    /\ IdleCalls
    /\ IdleParse
    /\ IdleFlags
    /\ IdleText
    /\ IdleRect
    /\ IdleArc
    /\ IdleViewbox
    /\ IdleSymbolLine
    /\ IdleFlagFile
    /\ IdleOrder
    /\ IdleFontSize
    /\ IdleAsy

\* One call of a method: the object becomes what the method leaves, and the
\* caller sees how the call ended.
SymCall(op, args, result) ==
    /\ nCalls < MaxCalls
    /\ symbolRenderer' = result.self
    /\ lastCall' = [op |-> op, args |-> args, raised |-> result.raised]
    /\ nCalls' = nCalls + 1
    /\ inSpan' = IF op = "begin_symbol" THEN TRUE
                 ELSE IF op = "finish_symbol" THEN FALSE
                 ELSE inSpan
    /\ UNCHANGED othersSym

begin_symbol == SymCall("begin_symbol", <<>>, BeginSymbol(symbolRenderer))

set_transformation ==
    \E rotation \in RotationInputs, translation \in TranslationInputs :
        SymCall("set_transformation", <<rotation, translation>>,
                SetTransformation(symbolRenderer, rotation, translation))

set_symbol_definition ==
    \E symbol_def \in DefInputs :
        SymCall("set_symbol_definition", <<symbol_def>>,
                SetSymbolDefinition(symbolRenderer, symbol_def))

set_window_overrides ==
    \E window_overrides \in OverrideInputs :
        SymCall("set_window_overrides", <<window_overrides>>,
                SetWindowOverrides(symbolRenderer, window_overrides))

render_shapes ==
    \E shapes \in ShapesInputs :
        SymCall("render_shapes", <<shapes>>,
                SymbolRenderShapes(symbolRenderer, shapes, DefaultStrokeWidth))

render_texts ==
    \E texts \in TextsInputs :
        SymCall("render_texts", <<texts>>, SymbolRenderTexts(symbolRenderer, texts))

render_component_name ==
    \E instance_name \in NameInputs :
        SymCall("render_component_name", <<instance_name>>,
                RenderComponentName(symbolRenderer, instance_name))

render_component_value ==
    \E value \in ValueInputs :
        SymCall("render_component_value", <<value>>,
                RenderComponentValue(symbolRenderer, value))

finish_symbol == SymCall("finish_symbol", <<>>, FinishSymbol(symbolRenderer))

NextSym ==
    \/ begin_symbol
    \/ set_transformation
    \/ set_symbol_definition
    \/ set_window_overrides
    \/ render_shapes
    \/ render_texts
    \/ render_component_name
    \/ render_component_value
    \/ finish_symbol

SpecSym == InitSym /\ [][NextSym]_vars

---------------------------------------------------------------------------
(* Specification SpecPlace: one symbol instance is placed by both          *)
(* implementations; the group transform of each and the per-point          *)
(* position of the generator are computed for the same instance.           *)

\* SVGGenerator(scale=...): the coordinate scale factor of the generator.
GeneratorScale == 1

PlaceRotationInputs == Orientations \cup {RotInvalid}
PlaceOriginInputs == {<<0, 0>>, <<32, -48>>}
PlacePointInputs == {<<0, 0>>, <<1, 0>>, <<0, 1>>, <<3, -16>>, <<-8, 5>>}

InitPlace ==
    /\ placeSymbol \in {[rotation |-> r, x |-> o[1], y |-> o[2]] :
                            r \in PlaceRotationInputs, o \in PlaceOriginInputs}
    /\ placePoint \in PlacePointInputs
    /\ generatorGroup = NoTransform
    /\ rendererGroup = NoTransform
    /\ namePosition = NoPosition
    /\ IdleTJ
    /\ IdleSym
    /\ IdleRender
    /\ IdleCalls
    /\ IdleParse
    /\ IdleFlags
    /\ IdleText
    /\ IdleRect
    /\ IdleArc
    /\ IdleViewbox
    /\ IdleSymbolLine
    /\ IdleFlagFile
    /\ IdleOrder
    /\ IdleFontSize
    /\ IdleAsy

\* _add_symbols builds the transform of the instance's group.
GeneratorBuildGroup ==
    /\ ~generatorGroup.called
    /\ generatorGroup' =
          [called |-> TRUE,
           transform |-> GeneratorSymbolTransform(placeSymbol.rotation, placeSymbol.x,
                                                  placeSymbol.y, GeneratorScale)]
    /\ UNCHANGED <<placeSymbol, placePoint, rendererGroup, namePosition, othersPlace>>

\* begin_symbol() then set_transformation(rotation, (x, y)) on a new
\* SymbolRenderer.
RendererBuildGroup ==
    /\ ~rendererGroup.called
    /\ LET begun == BeginSymbol(NewSymbolRenderer(DefaultConfig)).self
           placed == SetTransformation(begun, placeSymbol.rotation,
                                       <<placeSymbol.x, placeSymbol.y>>).self
       IN  rendererGroup' = [called |-> TRUE, transform |-> placed.current_group.transform]
    /\ UNCHANGED <<placeSymbol, placePoint, generatorGroup, namePosition, othersPlace>>

\* _add_symbols places the instance name whose window is at placePoint.
GeneratorPlaceName ==
    /\ ~namePosition.called
    /\ namePosition' =
          [called |-> TRUE,
           pos |-> GeneratorNamePosition(placeSymbol.rotation, placeSymbol.x,
                                         placeSymbol.y, GeneratorScale, placePoint)]
    /\ UNCHANGED <<placeSymbol, placePoint, generatorGroup, rendererGroup, othersPlace>>

NextPlace == GeneratorBuildGroup \/ RendererBuildGroup \/ GeneratorPlaceName

SpecPlace == InitPlace /\ [][NextPlace]_vars

---------------------------------------------------------------------------
(* Specification SpecRender: one caller, one schematic and one library,    *)
(* rendered again and again by the same generator and renderer objects.    *)

\* Number of renders a behaviour makes.
MaxRenders == 2

NamedText(x, y) == [Text(x, y, "", "Left", 2, "comment") EXCEPT !.property_id = 0]

\* Symbol definitions of the library inputs.
DefOf(name) ==
    CASE name = "res" ->
            SymbolDef(TRUE, [k \in {StrKey(0)} |-> WindowOfDef0],
                      <<GoodLine, DashedLine>>, <<>>, <<>>, <<>>, <<NamedText(4, -4)>>)
      [] name = "GND" ->
            SymbolDef(FALSE, NoWindows, <<GoodLine>>, <<>>, <<>>, <<>>, <<>>)
      [] name = "bad" ->
            SymbolDef(FALSE, NoWindows, <<BadStyleLine>>, <<>>, <<>>, <<>>, <<>>)
      [] name = "label" ->
            SymbolDef(FALSE, NoWindows, <<>>, <<>>, <<>>, <<>>,
                      <<Text(0, 0, "out", "Left", 2, "comment")>>)

Library(names) == [n \in names |-> DefOf(n)]

LibraryInputs ==
    {EmptyLibrary, Library({"res"}), Library({"res", "GND"}), Library({"res", "bad", "label"})}

Instance(symbol_name, instance_name, rotation, x, y) ==
    [symbol_name |-> symbol_name, instance_name |-> instance_name, value |-> "",
     rotation |-> rotation, x |-> x, y |-> y, window_overrides |-> NoWindows]

R1 == Instance("res", "R1", Rot("R", 0), 0, 0)
R2 == Instance("res", "R2", Rot("M", 90), 32, 0)
\* An instance of a symbol no library input defines.
X1 == Instance("opamp", "X1", Rot("R", 0), 16, 16)

Wire(x1, y1, x2, y2) == [x1 |-> x1, y1 |-> y1, x2 |-> x2, y2 |-> y2]

\* Three wires that end at (0, 16).
TeeWires == <<Wire(-16, 16, 0, 16), Wire(0, 16, 16, 16), Wire(0, 16, 0, 32)>>

GoodShapes == Shapes(<<GoodLine>>, <<Shape(0, 0, 16, 16, DashNone)>>, <<>>, <<>>)
\* A line with a bad dash token before a sound line.
BadStyleShapes == Shapes(<<BadStyleLine, GoodLine>>, <<>>, <<>>, <<>>)
\* A sound line before a line without coordinates.
NoCoordsShapes == Shapes(<<DashedLine, NoCoordsLine>>, <<>>, <<>>, <<>>)

Note == <<Text(0, 32, "note", "Left", 2, "comment")>>

AllKeys == {"wires", "symbols", "texts", "flags", "shapes"}

\* The keys a schematic dictionary must have: those of its non-empty
\* collections (the parser writes 'wires' and 'symbols' always).
NeededKeys(texts, shapes) ==
    {"wires", "symbols"}
    \cup (IF texts # <<>> THEN {"texts"} ELSE {})
    \cup (IF shapes # NoShapes THEN {"shapes"} ELSE {})

Schematic(keys, ws, syms, texts, shapes) ==
    [keys |-> keys \cup NeededKeys(texts, shapes), wires |-> ws, symbols |-> syms,
     texts |-> texts, flags |-> <<>>, shapes |-> shapes]

SchematicInputs ==
    {Schematic({}, <<>>, <<>>, <<>>, NoShapes),
     Schematic(AllKeys, TeeWires, <<R1>>, Note, GoodShapes),
     Schematic({}, TeeWires, <<R1, X1, R2>>, <<>>, NoShapes),
     Schematic(AllKeys, <<>>, <<R1, X1, R2>>, Note, GoodShapes),
     Schematic(AllKeys, <<>>, <<X1>>, Note, NoShapes),
     Schematic({}, TeeWires, <<Instance("GND", "", Rot("R", 0), 0, 16)>>, <<>>, NoShapes),
     Schematic(AllKeys, <<>>, <<Instance("bad", "B1", Rot("R", 0), 0, 0), R1>>, <<>>,
               NoShapes),
     Schematic({}, <<>>, <<Instance("label", "", Rot("R", 0), 0, 0), R1>>, Note, NoShapes),
     Schematic({}, TeeWires, <<R1>>, <<>>, BadStyleShapes),
     Schematic({}, <<>>, <<R1>>, Note, NoCoordsShapes)}

RenderConfigInputs ==
    {DefaultConfig, TextOptions(FALSE, FALSE, TRUE, FALSE, FALSE)}

InitRender ==
    /\ schematic \in SchematicInputs
    /\ library \in LibraryInputs
    /\ svgGenerator = NewSVGGenerator(DefaultStrokeWidth, DotSizeMultiplier, GeneratorScale,
                                      DefaultFontSize, FALSE)
    /\ \E config \in RenderConfigInputs :
          svgRenderer = NewSVGRenderer(config, DefaultStrokeWidth)
    /\ legacyRenderer = NewLegacyRenderer
    /\ renders = <<>>
    /\ IdleTJ
    /\ IdleSym
    /\ IdlePlace
    /\ IdleCalls
    /\ IdleParse
    /\ IdleFlags
    /\ IdleText
    /\ IdleRect
    /\ IdleArc
    /\ IdleViewbox
    /\ IdleSymbolLine
    /\ IdleFlagFile
    /\ IdleOrder
    /\ IdleFontSize
    /\ IdleAsy

Rendered(by, out) ==
    [by |-> by, schematic |-> schematic, library |-> library, out |-> out]

\* SVGGenerator.generate(schematic, output_path, library)
CallGenerate ==
    /\ Len(renders) < MaxRenders
    /\ LET result == Generate(svgGenerator, schematic, library)
       IN  /\ svgGenerator' = result.self
           /\ library' = result.symbols_data
           /\ renders' = Append(renders, Rendered("generate", result.out))
    /\ UNCHANGED <<schematic, svgRenderer, legacyRenderer, othersRender>>

\* The pass over the SVGRenderer of src/renderers.
CallRendererRender ==
    /\ Len(renders) < MaxRenders
    /\ LET result == RendererRender(svgRenderer, schematic, library, DotSizeMultiplier)
       IN  /\ svgRenderer' = result.self
           /\ renders' = Append(renders, Rendered("renderer", result.out))
    /\ UNCHANGED <<schematic, library, svgGenerator, legacyRenderer, othersRender>>

\* load_schematic(schematic, library) of the SVGRenderer of src/generators.
CallLegacyLoadSchematic ==
    /\ LET result == LegacyLoadSchematic(legacyRenderer, schematic, library)
       IN  /\ legacyRenderer' = result.self
           /\ schematic' = result.schematic_data
    /\ UNCHANGED <<library, svgGenerator, svgRenderer, renders, othersRender>>

NextRender == CallGenerate \/ CallRendererRender \/ CallLegacyLoadSchematic

SpecRender == InitRender /\ [][NextRender]_vars

---------------------------------------------------------------------------
(* The methods of one SVGRenderer, called in any order.                    *)

MaxRendererCalls == 4

GndFlag == Flag("gnd", 0, 32, "0", 0)
EmptyLabel == Flag("net_label", 16, 0, "", 180)
VccLabel == Flag("net_label", 16, 0, "VCC", 0)
OutLabel == Flag("net_label", 32, 16, "out", 180)
InPin == IOPin(-16, 16, "in", 0, "In")
OutPin == IOPin(16, 16, "o", 90, "Out")
BiDirPin == IOPin(0, 0, "io", 270, "BiDir")

WithFlags(schematic_data, flags) ==
    [schematic_data EXCEPT !.flags = flags, !.keys = @ \cup {"flags"}]

\* Texts as the parser makes them: a comment, a directive, and a comment
\* line with nothing after its ';'.
MixedTexts ==
    <<Text(0, 32, "note", "Left", 2, "comment"),
      Text(0, 48, ".tran 1", "VTop", 2, "spice"),
      Text(0, 64, "", "Left", 2, "comment"),
      Text(16, 64, "gain", "Right", 2, "comment")>>

FlagSchematicInputs ==
    {Schematic(AllKeys, TeeWires, <<R1>>, MixedTexts, GoodShapes),
     WithFlags(Schematic({}, TeeWires, <<>>, <<>>, NoShapes), <<GndFlag, InPin, EmptyLabel>>),
     WithFlags(Schematic({}, <<>>, <<>>, Note, NoShapes), <<GndFlag, VccLabel, OutPin>>)}

\* The settings of no_schematic_comment, no_spice_directive and no_net_label.
SwitchInputs ==
    {SetNoNetLabel(TextOptions(comment, spice, FALSE, FALSE, FALSE), label) :
        comment \in BOOLEAN, spice \in BOOLEAN, label \in BOOLEAN}

InitRendererCalls ==
    /\ \E config \in SwitchInputs : renderer = NewSVGRenderer(config, DefaultStrokeWidth)
    /\ rendererCall = NoRendererCall
    /\ completed = {}
    /\ rendererCalls = 0
    /\ IdleTJ
    /\ IdleSym
    /\ IdlePlace
    /\ IdleRender
    /\ IdleParse
    /\ IdleFlags
    /\ IdleText
    /\ IdleRect
    /\ IdleArc
    /\ IdleViewbox
    /\ IdleSymbolLine
    /\ IdleFlagFile
    /\ IdleOrder
    /\ IdleFontSize
    /\ IdleAsy

\* A method was called and ended as 'result'; 'completed' keeps the methods
\* among load_schematic and create_drawing that have returned normally.
RendererCall(op, result) ==
    /\ rendererCalls < MaxRendererCalls
    /\ renderer' = result.self
    /\ rendererCall' = [op |-> op, raised |-> result.raised, completed |-> completed,
                        before |-> Len(renderer.dwg.elements)]
    /\ completed' = IF result.raised = "None" /\ op \in {"load_schematic", "create_drawing"}
                    THEN completed \cup {op} ELSE completed
    /\ rendererCalls' = rendererCalls + 1
    /\ UNCHANGED othersCalls

load_schematic ==
    \E schematic_data \in FlagSchematicInputs :
        RendererCall("load_schematic",
                     LoadSchematic(renderer, schematic_data, Library({"res"})))

create_drawing == RendererCall("create_drawing", CreateDrawing(renderer))
render_wires == RendererCall("render_wires", RenderWires(renderer, DotSizeMultiplier))
render_symbols == RendererCall("render_symbols", RenderSymbols(renderer))
render_schematic_texts == RendererCall("render_texts", RenderTexts(renderer))
render_schematic_shapes == RendererCall("render_shapes", RenderShapes(renderer))
render_flags == RendererCall("render_flags", RenderFlags(renderer))
save == RendererCall("save", Save(renderer))

NextRendererCalls ==
    \/ load_schematic
    \/ create_drawing
    \/ render_wires
    \/ render_symbols
    \/ render_schematic_texts
    \/ render_schematic_shapes
    \/ render_flags
    \/ save

SpecRendererCalls == InitRendererCalls /\ [][NextRendererCalls]_vars

---------------------------------------------------------------------------
(* ASCParser.parse on one file.                                            *)

MaxLines == 3

FlagLineInputs ==
    {FLAGLine(0, 0, "0"), FLAGLine(0, 0, "net1"), FLAGLine(16, 0, "net2"),
     IOPINLine(0, 0, "In"), IOPINLine(16, 0, "BiDir")}

InitParse ==
    /\ ascLines \in SeqsUpTo(FlagLineInputs, MaxLines)
    /\ parsed = NotParsed
    /\ IdleTJ
    /\ IdleSym
    /\ IdlePlace
    /\ IdleRender
    /\ IdleCalls
    /\ IdleFlags
    /\ IdleText
    /\ IdleRect
    /\ IdleArc
    /\ IdleViewbox
    /\ IdleSymbolLine
    /\ IdleFlagFile
    /\ IdleOrder
    /\ IdleFontSize
    /\ IdleAsy

\* ASCParser(file).parse()
CallParse ==
    /\ ~parsed.done
    /\ LET result == Parse(ascLines)
       IN  parsed' = [done |-> TRUE, flags |-> result.flags, io_pins |-> result.io_pins,
                      texts |-> result.texts]
    /\ UNCHANGED <<ascLines, othersParse>>

NextParse == CallParse

SpecParse == InitParse /\ [][NextParse]_vars

---------------------------------------------------------------------------
(* One flag drawn by the functions of src/generators and by the            *)
(* FlagRenderer of src/renderers.                                          *)

FlagPositionInputs == {<<0, 0>>, <<32, -16>>}
FlagOrientationInputs == {0, 90, 180, 270}
\* text_centering_compensation, in tenths.
CompensationInput == 3

FlagInputs ==
    {Flag("net_label", p[1], p[2], n, o) :
        p \in FlagPositionInputs, n \in {"VCC", "out"}, o \in FlagOrientationInputs}
    \cup {Flag("gnd", p[1], p[2], "0", o) :
            p \in FlagPositionInputs, o \in FlagOrientationInputs}
    \cup {IOPin(p[1], p[2], "io", o, d) :
            p \in FlagPositionInputs, o \in FlagOrientationInputs,
            d \in {"BiDir", "In", "Out"}}

InitFlags ==
    /\ flagInput \in FlagInputs
    /\ flagScale \in {1, 2}
    /\ flagDrawn = NoFlagDrawn
    /\ IdleTJ
    /\ IdleSym
    /\ IdlePlace
    /\ IdleRender
    /\ IdleCalls
    /\ IdleParse
    /\ IdleText
    /\ IdleRect
    /\ IdleArc
    /\ IdleViewbox
    /\ IdleSymbolLine
    /\ IdleFlagFile
    /\ IdleOrder
    /\ IdleFontSize
    /\ IdleAsy

\* render_flags of src/generators/flag_renderer.py on a drawing, with the
\* flag among the flags or, an IO pin, among the io_pins.
GeneratorDrawFlag ==
    /\ flagDrawn' =
          [by |-> "generator", raised |-> "None",
           elements |-> GeneratorRenderFlags(
                IF flagInput.type = "io_pin" THEN <<>> ELSE <<flagInput>>,
                IF flagInput.type = "io_pin" THEN <<flagInput>> ELSE <<>>,
                flagScale, DefaultStrokeWidth, DefaultFontSize, CompensationInput)]
    /\ UNCHANGED <<flagInput, flagScale, othersFlags>>

\* The pass of SVGRenderer.render_flags over the flag, through the
\* FlagRenderer of src/renderers.
RendererDrawFlag ==
    /\ LET out == RenderFlagList(<<flagInput>>, DefaultStrokeWidth)
       IN  flagDrawn' = [by |-> "renderer", raised |-> out.raised, elements |-> out.elements]
    /\ UNCHANGED <<flagInput, flagScale, othersFlags>>

NextFlags == GeneratorDrawFlag \/ RendererDrawFlag

SpecFlags == InitFlags /\ [][NextFlags]_vars

---------------------------------------------------------------------------
(* One text: parsed from a TEXT line or given by the caller, and rendered  *)
(* by TextRenderer.render, by SVGRenderer.render_texts and by              *)
(* SVGGenerator._add_texts.                                                *)

JustificationInputs ==
    {"Left", "Right", "Center", "Top", "Bottom", "VLeft", "VRight", "VCenter", "VTop",
     "VBottom", "Middle", "VMiddle"}

Recognised == JustificationInputs \ {"Middle", "VMiddle"}

SizeInputs == {SizeIndex(k) : k \in 0..8} \cup {NoSizeIndex, BadSizeIndex}

TextLineInputs == {TEXTLine(16, 32, "Left", size, ";", "Comment") : size \in SizeInputs}

TextRecordInputs ==
    {Text(16, 32, "label", justification, size, "comment") :
        justification \in JustificationInputs, size \in {0, 2, 3}}

BaseFontSizeInputs == {12, 16, 22}

InitText ==
    /\ textLine \in TextLineInputs
    /\ textRecord \in TextRecordInputs
    /\ textSource = "caller"
    /\ baseFontSize = DefaultBaseFontSize
    /\ textDrawn = NoTextDrawn
    /\ IdleTJ
    /\ IdleSym
    /\ IdlePlace
    /\ IdleRender
    /\ IdleCalls
    /\ IdleParse
    /\ IdleFlags
    /\ IdleRect
    /\ IdleArc
    /\ IdleViewbox
    /\ IdleSymbolLine
    /\ IdleFlagFile
    /\ IdleOrder
    /\ IdleFontSize
    /\ IdleAsy

\* ASCParser.parse() of the file with the one TEXT line.
ParseTextLine ==
    /\ textSource = "caller"
    /\ textRecord' = ParseText(textLine)
    /\ textSource' = "parser"
    /\ textDrawn' = NoTextDrawn
    /\ UNCHANGED <<textLine, baseFontSize, othersText>>

\* SVGRenderer.set_base_font_size(b): the option of the configuration and
\* the base_font_size of every renderer are set.
set_base_font_size ==
    /\ \E b \in BaseFontSizeInputs : baseFontSize' = b
    /\ UNCHANGED <<textLine, textRecord, textSource, textDrawn, othersText>>

\* TextRenderer.render(text, font_size=22.0), as the unit tests call it.
TextRendererDraw ==
    /\ textDrawn' = [by |-> "text_renderer", raised |-> "None",
                     elements |-> TextRendererRender(textRecord, DefaultTextFontSize)]
    /\ UNCHANGED <<textLine, textRecord, textSource, baseFontSize, othersText>>

\* SVGRenderer.render_texts() on the schematic with the one text, after
\* load_schematic and create_drawing.
RendererDrawText ==
    /\ textDrawn' =
          [by |-> "renderer", raised |-> "None",
           elements |-> RenderSchematicTexts(
                            NewSVGRenderer(DefaultConfig, DefaultStrokeWidth),
                            <<textRecord>>)]
    /\ UNCHANGED <<textLine, textRecord, textSource, baseFontSize, othersText>>

\* SVGGenerator._add_texts(dwg, texts) with the one text.
GeneratorDrawText ==
    /\ textSource = "caller"
    /\ textDrawn' =
          [by |-> "generator", raised |-> "None",
           elements |-> GeneratorAddTexts(
                            NewSVGGenerator(DefaultStrokeWidth, DotSizeMultiplier,
                                            GeneratorScale, DefaultFontSize, FALSE),
                            <<textRecord>>)]
    /\ UNCHANGED <<textLine, textRecord, textSource, baseFontSize, othersText>>

NextText ==
    \/ ParseTextLine
    \/ set_base_font_size
    \/ TextRendererDraw
    \/ RendererDrawText
    \/ GeneratorDrawText

SpecText == InitText /\ [][NextText]_vars

---------------------------------------------------------------------------
(* The rectangle functions of src/generators/shape_renderer.py.            *)

RectElement(x, y, width, height, stroke_width, dash) ==
    [tag |-> "rect", x |-> x, y |-> y, width |-> width, height |-> height,
     stroke_width |-> stroke_width, dash |-> dash]

\* _create_rectangle(dwg, x1, y1, x2, y2, stroke_width, style): always a
\* rect element, with the scaled dash array when a style is given.
CreateRectangle(x1, y1, x2, y2, stroke_width, style) ==
    IF ~DashIsNumeric(style) THEN Failed("ValueError")
    ELSE Emitted(<<RectElement(x1, y1, x2 - x1, y2 - y1, stroke_width,
                               ScaleDashArray(style, stroke_width))>>)

\* render_rectangle(dwg, rect, scale, stroke_width): a closed path when the
\* record has a style, a rect element otherwise.
RenderRectangle(rect, scale, stroke_width) ==
    IF ~rect.has_coords THEN Failed("KeyError")
    ELSE IF ~DashIsNumeric(rect.style) THEN Failed("ValueError")
    ELSE LET x == SetMin({rect.x1, rect.x2})
             y == SetMin({rect.y1, rect.y2})
             width == Abs(rect.x2 - rect.x1)
             height == Abs(rect.y2 - rect.y1)
         IN  IF rect.style # <<>>
             THEN Emitted(<<[tag |-> "path", closed |-> TRUE,
                             points |-> <<<<x * scale, y * scale>>,
                                          <<x * scale + width * scale, y * scale>>,
                                          <<x * scale + width * scale,
                                            y * scale + height * scale>>,
                                          <<x * scale, y * scale + height * scale>>>>,
                             stroke_width |-> stroke_width,
                             dash |-> ScaleDashArray(rect.style, stroke_width)]>>)
             ELSE Emitted(<<RectElement(x * scale, y * scale, width * scale,
                                        height * scale, stroke_width, <<>>)>>)

---------------------------------------------------------------------------
(* One rectangle record drawn by each of the rectangle emitters: the       *)
(* schematic shapes and the symbol shapes of SVGGenerator, and the         *)
(* functions of src/generators/shape_renderer.py.                          *)

RectCornerInputs == {<<0, 0, 16, 8>>, <<16, 8, 0, 0>>, <<-8, 0, 8, 16>>, <<0, 16, 16, 0>>}
RectStyleInputs == {DashNone, DashDash, DashBad}

RectInputs ==
    {Shape(c[1], c[2], c[3], c[4], style) : c \in RectCornerInputs, style \in RectStyleInputs}

InitRect ==
    /\ rectInput \in RectInputs
    /\ rectScale \in {1, 2}
    /\ rectStrokeWidth \in {1, 2}
    /\ rectDrawn = NoRectDrawn
    /\ IdleTJ
    /\ IdleSym
    /\ IdlePlace
    /\ IdleRender
    /\ IdleCalls
    /\ IdleParse
    /\ IdleFlags
    /\ IdleText
    /\ IdleArc
    /\ IdleViewbox
    /\ IdleSymbolLine
    /\ IdleFlagFile
    /\ IdleOrder
    /\ IdleFontSize
    /\ IdleAsy

RectDrawnBy(by, out) ==
    /\ rectDrawn' = [by |-> by, raised |-> out.raised, elements |-> out.elements]
    /\ UNCHANGED <<rectInput, rectScale, rectStrokeWidth, othersRect>>

RectGenerator ==
    NewSVGGenerator(rectStrokeWidth, DotSizeMultiplier, rectScale, DefaultFontSize, FALSE)

\* SVGGenerator._add_shapes over a schematic whose only shape is the
\* rectangle.
AddShapesRectangle ==
    RectDrawnBy("_add_shapes",
                GeneratorAddShapes(RectGenerator,
                                   [NoShapes EXCEPT !.rectangles = <<rectInput>>]))

\* SVGGenerator._add_symbols: the rectangle as a shape of a symbol
\* definition.
AddSymbolsRectangle ==
    RectDrawnBy("_add_symbols",
                GeneratorSymbolShapeList(RectGenerator, "rectangles", <<rectInput>>))

render_rectangle ==
    RectDrawnBy("render_rectangle",
                RenderRectangle(rectInput, rectScale, rectStrokeWidth))

_create_rectangle ==
    RectDrawnBy("_create_rectangle",
                CreateRectangle(rectInput.x1, rectInput.y1, rectInput.x2, rectInput.y2,
                                rectStrokeWidth, rectInput.style))

NextRect ==
    \/ AddShapesRectangle
    \/ AddSymbolsRectangle
    \/ render_rectangle
    \/ _create_rectangle

SpecRect == InitRect /\ [][NextRect]_vars

---------------------------------------------------------------------------
(* The arc functions of src/generators/shape_renderer.py.                  *)

\* _create_arc(dwg, x1, y1, x2, y2, start_angle, end_angle, stroke_width,
\* style): the large-arc flag from the angle difference modulo 360, the
\* sweep flag always '1'.
CreateArc(arc, stroke_width) ==
    IF ~DashIsNumeric(arc.style) THEN Failed("ValueError")
    ELSE Emitted(<<ArcElement(arc, 1,
                              (arc.end_angle - arc.start_angle) % 360 > 180,
                              TRUE,
                              stroke_width,
                              ScaleDashArray(arc.style, stroke_width))>>)

\* render_arc(dwg, arc, scale, stroke_width): the large-arc flag from the
\* absolute angle difference, the sweep flag from the order of the angles.
RenderArc(arc, scale, stroke_width) ==
    IF ~arc.has_coords THEN Failed("KeyError")
    ELSE IF ~DashIsNumeric(arc.style) THEN Failed("ValueError")
    ELSE Emitted(<<ArcElement(arc, scale,
                              Abs(arc.end_angle - arc.start_angle) > 180,
                              arc.end_angle > arc.start_angle,
                              stroke_width,
                              ScaleDashArray(arc.style, stroke_width))>>)

---------------------------------------------------------------------------
(* One arc record drawn by each of the arc emitters: the schematic shapes  *)
(* and the symbol shapes of SVGGenerator, and the functions of             *)
(* src/generators/shape_renderer.py.                                       *)

ArcAngleInputs == {0, 90, 180, 270}
ArcBoxInputs == {<<0, 0, 16, 16>>, <<-8, 0, 24, 16>>}
ArcStyleInputs == {DashNone, DashDash}

ArcInputs ==
    {Arc(b[1], b[2], b[3], b[4], start, end, style) :
        b \in ArcBoxInputs, start \in ArcAngleInputs, end \in ArcAngleInputs,
        style \in ArcStyleInputs}

InitArc ==
    /\ arcInput \in ArcInputs
    /\ arcScale \in {1, 2}
    /\ arcDrawn = NoArcDrawn
    /\ IdleTJ
    /\ IdleSym
    /\ IdlePlace
    /\ IdleRender
    /\ IdleCalls
    /\ IdleParse
    /\ IdleFlags
    /\ IdleText
    /\ IdleRect
    /\ IdleViewbox
    /\ IdleSymbolLine
    /\ IdleFlagFile
    /\ IdleOrder
    /\ IdleFontSize
    /\ IdleAsy

ArcDrawnBy(by, out) ==
    /\ arcDrawn' = [by |-> by, raised |-> out.raised, elements |-> out.elements]
    /\ UNCHANGED <<arcInput, arcScale, othersArc>>

ArcGenerator ==
    NewSVGGenerator(DefaultStrokeWidth, DotSizeMultiplier, arcScale, DefaultFontSize, FALSE)

\* SVGGenerator._add_shapes over a schematic whose only shape is the arc.
AddShapesArc ==
    ArcDrawnBy("_add_shapes",
               GeneratorAddShapes(ArcGenerator, [NoShapes EXCEPT !.arcs = <<arcInput>>]))

\* SVGGenerator._add_symbols: the arc as a shape of a symbol definition.
AddSymbolsArc ==
    ArcDrawnBy("_add_symbols",
               GeneratorSymbolShapeList(ArcGenerator, "arcs", <<arcInput>>))

render_arc ==
    ArcDrawnBy("render_arc", RenderArc(arcInput, arcScale, DefaultStrokeWidth))

_create_arc ==
    ArcDrawnBy("_create_arc", CreateArc(arcInput, DefaultStrokeWidth))

NextArc ==
    \/ AddShapesArc
    \/ AddSymbolsArc
    \/ render_arc
    \/ _create_arc

SpecArc == InitArc /\ [][NextArc]_vars

---------------------------------------------------------------------------
(* The view box of one schematic, as SVGGenerator.generate computes it and *)
(* as load_schematic of the SVGRenderer of src/generators computes it.     *)

FarSymbol == Instance("res", "R9", Rot("R", 90), 200, -200)
FarText == <<Text(-300, 400, "far", "Left", 2, "comment")>>
FarFlag == Flag("gnd", 500, 500, "0", 0)
HorizontalWire == <<Wire(100, 200, 300, 200)>>

ViewboxSchematicInputs ==
    {WithFlags(Schematic({}, ws, syms, texts, shapes), flags) :
        ws \in {<<>>, HorizontalWire, TeeWires},
        syms \in {<<>>, <<R1>>, <<FarSymbol>>},
        texts \in {<<>>, Note, FarText},
        flags \in {<<>>, <<GndFlag>>, <<FarFlag>>},
        shapes \in {NoShapes, GoodShapes}}

InitViewbox ==
    /\ vbSchematic \in ViewboxSchematicInputs
    /\ vbScale \in {1, 2}
    /\ vbBox = NoViewbox
    /\ IdleTJ
    /\ IdleSym
    /\ IdlePlace
    /\ IdleRender
    /\ IdleCalls
    /\ IdleParse
    /\ IdleFlags
    /\ IdleText
    /\ IdleRect
    /\ IdleArc
    /\ IdleSymbolLine
    /\ IdleFlagFile
    /\ IdleOrder
    /\ IdleFontSize
    /\ IdleAsy

\* SVGGenerator.generate: the view box computed from the loaded collections,
\* in scaled units.
GenerateViewbox ==
    /\ vbBox' = [by |-> "generate", raised |-> "None", finite |-> TRUE, unit |-> vbScale,
                 box |-> GeneratorViewbox(
                            GeneratorLoad(NewSVGGenerator(DefaultStrokeWidth,
                                                          DotSizeMultiplier, vbScale,
                                                          DefaultFontSize, FALSE),
                                          vbSchematic, EmptyLibrary))]
    /\ UNCHANGED <<vbSchematic, vbScale, othersViewbox>>

\* load_schematic of the SVGRenderer of src/generators: self.view_box, in
\* tenths of a unit; the caller's dictionary gets its missing keys.
LegacyViewbox ==
    /\ LET result == LegacyLoadSchematic(NewLegacyRenderer, vbSchematic, EmptyLibrary)
       IN  /\ vbBox' = [by |-> "load_schematic", raised |-> result.raised,
                        finite |-> result.self.view_box.finite, unit |-> 10,
                        box |-> result.self.view_box.box]
           /\ vbSchematic' = result.schematic_data
    /\ UNCHANGED <<vbScale, othersViewbox>>

NextViewbox == GenerateViewbox \/ LegacyViewbox

SpecViewbox == InitViewbox /\ [][NextViewbox]_vars

---------------------------------------------------------------------------
(* ASCParser._parse_symbol (src/parsers/asc_parser.py).                    *)

\* A rotation string: its first character, and the rest as a number when
\* the rest consists of digits (isdigit is false for an empty rest).
RotationString(first, rest_is_digits, angle) ==
    [Rot(first, angle) EXCEPT !.numeric = rest_is_digits]

\* A SYMBOL line: 'SYMBOL name x y [rotation]'; coords_ok tells whether both
\* coordinates are integers.
SYMBOLLine(name, x, y, coords_ok, has_rotation, rotation) ==
    [name |-> name, x |-> x, y |-> y, coords_ok |-> coords_ok,
     has_rotation |-> has_rotation, rotation |-> rotation]

\* The check of the rotation string: 'R' or 'M' followed by digits.
RotationAccepted(rotation_str) ==
    rotation_str.type \in {"R", "M"} /\ rotation_str.numeric

\* _parse_symbol(line): the symbols and the warnings after the line.
ParseSymbol(line) ==
    IF ~line.coords_ok
    THEN [called |-> TRUE, symbols |-> <<>>, warnings |-> <<"Invalid symbol data">>]
    ELSE [called |-> TRUE,
          symbols |-> <<Instance(line.name, "",
                                  IF line.has_rotation /\ RotationAccepted(line.rotation)
                                  THEN line.rotation ELSE Rot("R", 0),
                                  line.x, line.y)>>,
          warnings |-> IF line.has_rotation /\ ~RotationAccepted(line.rotation)
                       THEN <<"Invalid rotation value">> ELSE <<>>]

---------------------------------------------------------------------------
(* One SYMBOL line parsed by ASCParser, and the parsed symbol placed by    *)
(* SymbolRenderer.begin_symbol and set_transformation.                     *)

RotationFirstInputs == {"R", "M", "X"}
RotationAngleInputs == {0, 90, 180, 270, 45, 360}

SymbolLineInputs ==
    {SYMBOLLine("res", p[1], p[2], TRUE, TRUE, RotationString(first, digits, angle)) :
        p \in {<<0, 0>>, <<32, -16>>}, first \in RotationFirstInputs,
        digits \in BOOLEAN, angle \in RotationAngleInputs}
    \cup {SYMBOLLine("res", 16, 16, ok, FALSE, Rot("R", 0)) : ok \in BOOLEAN}

InitSymbolLine ==
    /\ symbolLine \in SymbolLineInputs
    /\ symbolParsed = NoSymbolParsed
    /\ symbolPlaced = NoSymbolPlaced
    /\ IdleTJ
    /\ IdleSym
    /\ IdlePlace
    /\ IdleRender
    /\ IdleCalls
    /\ IdleParse
    /\ IdleFlags
    /\ IdleText
    /\ IdleRect
    /\ IdleArc
    /\ IdleViewbox
    /\ IdleFlagFile
    /\ IdleOrder
    /\ IdleFontSize
    /\ IdleAsy

ParseSymbolLine ==
    /\ ~symbolParsed.called
    /\ symbolParsed' = ParseSymbol(symbolLine)
    /\ UNCHANGED <<symbolLine, symbolPlaced, othersSymbolLine>>

\* begin_symbol() and set_transformation(rotation, (x, y)) for the parsed
\* symbol.
PlaceParsedSymbol ==
    /\ symbolParsed.called
    /\ symbolParsed.symbols # <<>>
    /\ LET symbol == symbolParsed.symbols[1]
           result == SetTransformation(BeginSymbol(NewSymbolRenderer(DefaultConfig)).self,
                                       symbol.rotation, <<symbol.x, symbol.y>>)
       IN  symbolPlaced' = [called |-> TRUE, raised |-> result.raised,
                            transform |-> result.self.current_group.transform]
    /\ UNCHANGED <<symbolLine, symbolParsed, othersSymbolLine>>

NextSymbolLine == ParseSymbolLine \/ PlaceParsedSymbol

SpecSymbolLine == InitSymbolLine /\ [][NextSymbolLine]_vars

---------------------------------------------------------------------------
(* A schematic file with one FLAG line among WIRE lines: the file is       *)
(* parsed, and edited by moving a WIRE line across the FLAG line.          *)

MaxParses == 2
MaxFlagWires == 2

FlagPointLine == FLAGLine(0, 0, "out")

\* Wires to the right of, below, to the left of and above the flag's point,
\* a diagonal one, and one that does not touch the point.
FlagWireInputs ==
    {WIRELine(0, 0, 16, 0), WIRELine(0, 0, 0, 16), WIRELine(-16, 0, 0, 0),
     WIRELine(0, -16, 0, 0), WIRELine(0, 0, 16, 16), WIRELine(16, 16, 32, 16)}

FlagFileInputs ==
    {before \o <<FlagPointLine>> \o after :
        before \in SeqsUpTo(FlagWireInputs, MaxFlagWires),
        after \in SeqsUpTo(FlagWireInputs, MaxFlagWires - 1)}

InitFlagFile ==
    /\ flagFile \in FlagFileInputs
    /\ flagParses = <<>>
    /\ IdleTJ
    /\ IdleSym
    /\ IdlePlace
    /\ IdleRender
    /\ IdleCalls
    /\ IdleParse
    /\ IdleFlags
    /\ IdleText
    /\ IdleRect
    /\ IdleArc
    /\ IdleViewbox
    /\ IdleSymbolLine
    /\ IdleOrder
    /\ IdleFontSize
    /\ IdleAsy

\* ASCParser(file).parse() on the file as it is now.
ParseFlagFile ==
    /\ Len(flagParses) < MaxParses
    /\ flagParses' = Append(flagParses, [lines |-> flagFile, flags |-> Parse(flagFile).flags])
    /\ UNCHANGED <<flagFile, othersFlagFile>>

\* The position of the FLAG line in the file.
FlagLineAt(lines) == CHOOSE i \in 1..Len(lines) : lines[i].word = "FLAG"

\* The file with the lines i and i + 1 exchanged.
Exchanged(lines, i) ==
    [k \in 1..Len(lines) |->
        IF k = i THEN lines[i + 1] ELSE IF k = i + 1 THEN lines[i] ELSE lines[k]]

\* The user moves the WIRE line that follows the FLAG line to before it.
MoveWireBeforeFlag ==
    /\ FlagLineAt(flagFile) < Len(flagFile)
    /\ flagFile' = Exchanged(flagFile, FlagLineAt(flagFile))
    /\ UNCHANGED <<flagParses, othersFlagFile>>

NextFlagFile == ParseFlagFile \/ MoveWireBeforeFlag

SpecFlagFile == InitFlagFile /\ [][NextFlagFile]_vars

---------------------------------------------------------------------------
(* One schematic, its collections in several orders, emitted by            *)
(* SVGGenerator.generate and by the pass over the SVGRenderer of           *)
(* src/renderers.  Every element has an x coordinate of its own.           *)

OrderWires == {<<Wire(0, 0, 16, 0), Wire(100, 0, 116, 0)>>,
               <<Wire(100, 0, 116, 0), Wire(0, 0, 16, 0)>>,
               <<Wire(100, 0, 116, 0)>>}
OrderLines == {<<Shape(200, 32, 216, 32, DashNone), Shape(300, 32, 316, 48, DashDash)>>,
               <<Shape(300, 32, 316, 48, DashDash), Shape(200, 32, 216, 32, DashNone)>>,
               <<>>}
OrderCircles == {<<Shape(400, 64, 416, 80, DashNone), Shape(500, 64, 532, 80, DashNone)>>,
                 <<Shape(500, 64, 532, 80, DashNone), Shape(400, 64, 416, 80, DashNone)>>}
OrderRectangles ==
    {<<Shape(600, 96, 616, 112, DashNone), Shape(700, 96, 716, 112, DashDash)>>,
     <<Shape(700, 96, 716, 112, DashDash), Shape(600, 96, 616, 112, DashNone)>>}
OrderArcs == {<<Arc(800, 128, 816, 144, 90, 180, DashNone),
                Arc(900, 128, 916, 144, 90, 0, DashNone)>>,
              <<Arc(900, 128, 916, 144, 90, 0, DashNone),
                Arc(800, 128, 816, 144, 90, 180, DashNone)>>}
OrderSymbols ==
    {<<Instance("res", "R1", Rot("R", 0), 1000, 160),
       Instance("res", "R2", Rot("M", 90), 1100, 160)>>,
     <<Instance("res", "R2", Rot("M", 90), 1100, 160),
       Instance("res", "R1", Rot("R", 0), 1000, 160)>>,
     <<Instance("res", "R2", Rot("M", 90), 1100, 160),
       Instance("opamp", "X1", Rot("R", 0), 1050, 160),
       Instance("res", "R1", Rot("R", 0), 1000, 160)>>}
OrderTexts == {<<Text(1200, 192, "a", "Left", 2, "comment"),
                 Text(1300, 192, "b", "Right", 2, "comment")>>,
               <<Text(1300, 192, "b", "Right", 2, "comment"),
                 Text(1200, 192, "a", "Left", 2, "comment")>>,
               <<>>}

OrderSchematicInputs ==
    {Schematic(AllKeys, ws, syms, texts, Shapes(lines, circles, rectangles, arcs)) :
        ws \in OrderWires, syms \in OrderSymbols, texts \in OrderTexts,
        lines \in OrderLines, circles \in OrderCircles,
        rectangles \in OrderRectangles, arcs \in OrderArcs}

InitOrder ==
    /\ orderSchematic \in OrderSchematicInputs
    /\ orderEmitted = NoOrderEmitted
    /\ IdleTJ
    /\ IdleSym
    /\ IdlePlace
    /\ IdleRender
    /\ IdleCalls
    /\ IdleParse
    /\ IdleFlags
    /\ IdleText
    /\ IdleRect
    /\ IdleArc
    /\ IdleViewbox
    /\ IdleSymbolLine
    /\ IdleFlagFile
    /\ IdleFontSize
    /\ IdleAsy

OrderEmittedBy(by, out) ==
    /\ orderEmitted' = [by |-> by, raised |-> out.raised, elements |-> out.elements]
    /\ UNCHANGED <<orderSchematic, othersOrder>>

\* SVGGenerator.generate(schematic, output_path, library)
OrderGenerate ==
    OrderEmittedBy("generate",
                   Generate(NewSVGGenerator(DefaultStrokeWidth, DotSizeMultiplier, 1,
                                            DefaultFontSize, FALSE),
                            orderSchematic, Library({"res"})).out)

\* The pass over the SVGRenderer of src/renderers.
OrderRender ==
    OrderEmittedBy("renderer",
                   RendererRender(NewSVGRenderer(DefaultConfig, DefaultStrokeWidth),
                                  orderSchematic, Library({"res"}),
                                  DotSizeMultiplier).out)

NextOrder == OrderGenerate \/ OrderRender

SpecOrder == InitOrder /\ [][NextOrder]_vars

---------------------------------------------------------------------------
(* The base_font_size property of BaseRenderer and its overrides in        *)
(* SymbolRenderer and FlagRenderer.                                        *)

\* A BaseRenderer after __init__, as far as its font size goes.
NewBaseRenderer == [base_font_size |-> DefaultBaseFontSize]

\* SymbolRenderer(dwg, config) and FlagRenderer(dwg): the renderer creates
\* its TextRenderer and assigns it its own base_font_size.
NewFontRenderer(kind) ==
    [kind |-> kind, base_font_size |-> NewBaseRenderer.base_font_size,
     text_renderer |-> [NewBaseRenderer EXCEPT
                           !.base_font_size = NewBaseRenderer.base_font_size]]

\* A setter that stores the value before it checks it.
BaseSetBaseFontSize_StoresFirst(self, value) ==
    IF value <= 0 THEN Raised([self EXCEPT !.base_font_size = value], "ValueError")
    ELSE Returned([self EXCEPT !.base_font_size = value])

\* BaseRenderer.base_font_size = value
BaseSetBaseFontSize(self, value) ==
    IF value <= 0 THEN Raised(self, "ValueError")
    ELSE Returned([self EXCEPT !.base_font_size = value])

\* The overriding setter of SymbolRenderer and of FlagRenderer: the parent's
\* setter on the renderer, then the assignment to the TextRenderer.
SetBaseFontSize(self, value) ==
    IF BaseSetBaseFontSize(self, value).raised # "None"
    THEN BaseSetBaseFontSize(self, value)
    ELSE [self |-> [BaseSetBaseFontSize(self, value).self EXCEPT
                       !.text_renderer =
                           BaseSetBaseFontSize(self.text_renderer, value).self],
          raised |-> BaseSetBaseFontSize(self.text_renderer, value).raised]

---------------------------------------------------------------------------
(* A SymbolRenderer or a FlagRenderer whose base_font_size is assigned     *)
(* again and again.                                                        *)

MaxAssignments == 3
FontSizeInputs == {-10, 0, 12, 22, 30}

InitFontSize ==
    /\ \E kind \in {"SymbolRenderer", "FlagRenderer"} : fontRenderer = NewFontRenderer(kind)
    /\ fontAssigned = <<>>
    /\ fontRaised = "None"
    /\ IdleTJ
    /\ IdleSym
    /\ IdlePlace
    /\ IdleRender
    /\ IdleCalls
    /\ IdleParse
    /\ IdleFlags
    /\ IdleText
    /\ IdleRect
    /\ IdleArc
    /\ IdleViewbox
    /\ IdleSymbolLine
    /\ IdleFlagFile
    /\ IdleOrder
    /\ IdleAsy

\* renderer.base_font_size = value; an exception leaves the caller with the
\* renderer as the setter left it.
AssignBaseFontSize ==
    /\ Len(fontAssigned) < MaxAssignments
    /\ \E value \in FontSizeInputs :
          /\ fontRenderer' = SetBaseFontSize(fontRenderer, value).self
          /\ fontRaised' = SetBaseFontSize(fontRenderer, value).raised
          /\ fontAssigned' = Append(fontAssigned, value)
    /\ UNCHANGED othersFontSize

NextFontSize == AssignBaseFontSize

SpecFontSize == InitFontSize /\ [][NextFontSize]_vars

---------------------------------------------------------------------------
(* ASYParser (src/parsers/asy_parser.py).  A line of the file is its first *)
(* word, whether its fields are well formed, and a number that stands for  *)
(* its fields.                                                             *)

ASYLine(word, well_formed, fields) ==
    [word |-> word, well_formed |-> well_formed, fields |-> fields]

\* ASYParser(file_path): the five lists are empty.
NewASYParser(file) ==
    [file |-> file, lines |-> <<>>, circles |-> <<>>, rectangles |-> <<>>,
     arcs |-> <<>>, texts |-> <<>>]

\* _parse_line, _parse_circle, _parse_rectangle, _parse_arc, _parse_window:
\* a well formed line appends one entry to the list of its kind.
ParseASYLine(self, line) ==
    IF ~line.well_formed THEN self
    ELSE CASE line.word = "LINE" -> [self EXCEPT !.lines = Append(@, line.fields)]
           [] line.word = "CIRCLE" -> [self EXCEPT !.circles = Append(@, line.fields)]
           [] line.word = "RECTANGLE" -> [self EXCEPT !.rectangles = Append(@, line.fields)]
           [] line.word = "ARC" -> [self EXCEPT !.arcs = Append(@, line.fields)]
           [] line.word = "WINDOW" -> [self EXCEPT !.texts = Append(@, line.fields)]
           [] OTHER -> self

RECURSIVE ParseASYLines(_, _)
ParseASYLines(self, file_lines) ==
    IF file_lines = <<>> THEN self
    ELSE ParseASYLines(ParseASYLine(self, file_lines[1]), Tail(file_lines))

\* The dictionary parse() returns: the five lists of the object.
ASYResult(self) ==
    [lines |-> self.lines, circles |-> self.circles, rectangles |-> self.rectangles,
     arcs |-> self.arcs, texts |-> self.texts]

\* parse(): the file is read and every line handled; the lists are those of
\* the object, which __init__ alone empties.
ASYParse(self) ==
    [self |-> ParseASYLines(self, self.file),
     result |-> ASYResult(ParseASYLines(self, self.file))]

\* export_json(output_path): json.dump(self.parse(), f)
ASYExportJson(self) == ASYParse(self)

---------------------------------------------------------------------------
(* One ASYParser object, parsed and exported any number of times.          *)

MaxAsyLines == 2
MaxAsyCalls == 3

ASYLineInputs ==
    {ASYLine("LINE", TRUE, 1), ASYLine("LINE", FALSE, 2), ASYLine("CIRCLE", TRUE, 3),
     ASYLine("RECTANGLE", TRUE, 4), ASYLine("ARC", TRUE, 5), ASYLine("WINDOW", TRUE, 6),
     ASYLine("PIN", TRUE, 7)}

InitAsy ==
    /\ \E file \in SeqsUpTo(ASYLineInputs, MaxAsyLines) : asyParser = NewASYParser(file)
    /\ asyReturned = <<>>
    /\ IdleTJ
    /\ IdleSym
    /\ IdlePlace
    /\ IdleRender
    /\ IdleCalls
    /\ IdleParse
    /\ IdleFlags
    /\ IdleText
    /\ IdleRect
    /\ IdleArc
    /\ IdleViewbox
    /\ IdleSymbolLine
    /\ IdleFlagFile
    /\ IdleOrder
    /\ IdleFontSize

AsyCall(op, out) ==
    /\ Len(asyReturned) < MaxAsyCalls
    /\ asyParser' = out.self
    /\ asyReturned' = Append(asyReturned, [op |-> op, result |-> out.result])
    /\ UNCHANGED othersAsy

parse == AsyCall("parse", ASYParse(asyParser))

export_json == AsyCall("export_json", ASYExportJson(asyParser))

NextAsy == parse \/ export_json

SpecAsy == InitAsy /\ [][NextAsy]_vars

---------------------------------------------------------------------------
(* Claims.                                                                 *)

Last(seq) == seq[Len(seq)]

\* The text element of a property value placed by a window.
WindowText(w, value) ==
    TextRendererRender([x |-> w.x, y |-> w.y, text |-> value,
                        justification |-> w.justification,
                        size_multiplier |-> w.size_multiplier,
                        type |-> "comment"], DefaultTextFontSize)[1]

\* render_component_name has just returned normally for a non-empty name
\* that the configuration does not suppress.
NameCallReturned ==
    /\ lastCall.op = "render_component_name"
    /\ lastCall.raised = "None"
    /\ lastCall.args[1] # ""
    /\ ~symbolRenderer.config.no_component_name

\* C2: when the instance carries a window override for property 0, under the
\* integer key 0 or the string key "0", the instance name is rendered at the
\* override's x, y, justification and size multiplier (whatever the symbol
\* definition says about window 0).
C2_OverrideWindowPlacesName ==
    (/\ NameCallReturned
     /\ {IntKey(0), StrKey(0)} \cap DOMAIN symbolRenderer.window_overrides # {})
    => /\ symbolRenderer.current_group.children # <<>>
       /\ \E k \in {IntKey(0), StrKey(0)} \cap DOMAIN symbolRenderer.window_overrides :
             Last(symbolRenderer.current_group.children)
                = WindowText(symbolRenderer.window_overrides[k], lastCall.args[1])

\* The built-in default window of the instance name.
BuiltinNameWindow == Window(0, -16, "Center", 2)

\* C3: when neither the window overrides nor the symbol definition provide a
\* window for property 0, a non-empty instance name is still emitted, at the
\* built-in default window {x:0, y:-16, Center, size 2}.
C3_DefaultWindowPlacesName ==
    (/\ NameCallReturned
     /\ {IntKey(0), StrKey(0)} \cap DOMAIN symbolRenderer.window_overrides = {}
     /\ StrKey(0) \notin DOMAIN DefWindows(symbolRenderer.symbol_def))
    => /\ symbolRenderer.current_group.children # <<>>
       /\ Last(symbolRenderer.current_group.children)
             = WindowText(BuiltinNameWindow, lastCall.args[1])

SpanOps == {"set_transformation", "render_shapes", "render_texts", "finish_symbol"}

\* C10: in any sequence of calls on a SymbolRenderer, set_transformation,
\* render_shapes, render_texts and finish_symbol return normally only between
\* a begin_symbol and the next finish_symbol; outside such a span each raises
\* ValueError and adds nothing to the drawing.
C10_SpanOpsOnlyInsideSpan ==
    [][(nCalls' = nCalls + 1 /\ lastCall'.op \in SpanOps)
        => /\ (lastCall'.raised = "None" => inSpan)
           /\ (~inSpan => /\ lastCall'.raised = "ValueError"
                          /\ symbolRenderer'.dwg = symbolRenderer.dwg
                          /\ symbolRenderer'.current_group = symbolRenderer.current_group)]_vars

\* A span was closed by finish_symbol and a later render_shapes was refused.
C10_Witness_RefusedAfterFinish ==
    /\ lastCall.op = "render_shapes"
    /\ lastCall.raised = "ValueError"
    /\ ~inSpan
    /\ Len(symbolRenderer.dwg) = 1
    /\ symbolRenderer.dwg[1].children # <<>>

\* The transform list the rule of C8 prescribes: translate, then mirror if the
\* kind is M, then rotate by the angle.
TranslateMirrorRotate(rotation, x, y) ==
    <<[kind |-> "translate", a |-> x, b |-> y]>>
    \o (IF rotation.type = "M" THEN <<[kind |-> "scale", a |-> -1, b |-> 1]>> ELSE <<>>)
    \o (IF rotation.angle # 0 THEN <<[kind |-> "rotate", a |-> rotation.angle, b |-> 0]>> ELSE <<>>)

MirrorPrecedesRotate(transform) ==
    \A i, j \in 1..Len(transform) :
        (transform[i].kind = "scale" /\ transform[j].kind = "rotate") => i < j

\* C8: the group transform of a symbol instance is translate, then mirror
\* scale(-1,1) if the kind is M, then rotate by the angle; the mirror component
\* always precedes the rotate component, in the generator's group and in the
\* SymbolRenderer's group.
C8_TranslateMirrorRotateOrder ==
    placeSymbol.rotation \in Orientations =>
        /\ generatorGroup.called =>
              /\ generatorGroup.transform
                    = TranslateMirrorRotate(placeSymbol.rotation,
                                            placeSymbol.x * GeneratorScale,
                                            placeSymbol.y * GeneratorScale)
              /\ MirrorPrecedesRotate(generatorGroup.transform)
        /\ rendererGroup.called =>
              /\ rendererGroup.transform
                    = TranslateMirrorRotate(placeSymbol.rotation, placeSymbol.x, placeSymbol.y)
              /\ MirrorPrecedesRotate(rendererGroup.transform)

\* The part of C8 that the generator's group satisfies.
C8_GeneratorOrder ==
    (placeSymbol.rotation \in Orientations /\ generatorGroup.called) =>
        /\ generatorGroup.transform
              = TranslateMirrorRotate(placeSymbol.rotation,
                                      placeSymbol.x * GeneratorScale,
                                      placeSymbol.y * GeneratorScale)
        /\ MirrorPrecedesRotate(generatorGroup.transform)

\* C9: for every orientation in {R,M} x {0,90,180,270} and every local point,
\* the position the group transform (translate, mirror, rotate) gives the point
\* equals the position of the per-point rule (negate x if M, then the fixed
\* rotation) plus the instance translation.
C9_GroupTransformEqualsPerPointRule ==
    (/\ placeSymbol.rotation \in Orientations
     /\ generatorGroup.called
     /\ namePosition.called)
    => ApplyTransform(generatorGroup.transform,
                      <<placePoint[1] * GeneratorScale, placePoint[2] * GeneratorScale>>)
          = namePosition.pos

\* The orientations for which C9 holds: every R, and M0 and M180.
C9_EqualExceptM90M270 ==
    (/\ placeSymbol.rotation \in Orientations
     /\ ~(placeSymbol.rotation.type = "M" /\ placeSymbol.rotation.angle \in {90, 270})
     /\ generatorGroup.called
     /\ namePosition.called)
    => ApplyTransform(generatorGroup.transform,
                      <<placePoint[1] * GeneratorScale, placePoint[2] * GeneratorScale>>)
          = namePosition.pos


---------------------------------------------------------------------------
(* Whole renders: C4 - C7.                                                 *)

\* The symbol names an implementation finds in the library it was given.
KnownNames(by, symbols_data) ==
    IF by = "generate" THEN DOMAIN GeneratorSymbolData(symbols_data)
    ELSE DOMAIN symbols_data \ {""}

\* The instances of a render whose symbol has no definition, in order.
Undefined(e) ==
    SelectSeq(e.schematic.symbols,
              LAMBDA s : s.symbol_name \notin KnownNames(e.by, e.library))

WithoutUndefined(e) ==
    [e.schematic EXCEPT !.symbols =
        SelectSeq(@, LAMBDA s : s.symbol_name \in KnownNames(e.by, e.library))]

\* What a new object with the same constructor arguments makes of a
\* schematic and a library.
Reference(by, schematic_data, symbols_data) ==
    IF by = "generate"
    THEN Generate(NewSVGGenerator(svgGenerator.stroke_width,
                                  svgGenerator.dot_size_multiplier, svgGenerator.scale,
                                  svgGenerator.font_size, svgGenerator.no_text),
                  schematic_data, symbols_data).out
    ELSE RendererRender(NewSVGRenderer(svgRenderer.config, svgRenderer.stroke_width),
                        schematic_data, symbols_data, DotSizeMultiplier).out

\* C4: an instance whose symbol_name has no definition in the library emits
\* nothing and signals one warning, and the instances before and after it
\* are rendered as if it were not there: the symbol elements of every render
\* (by the generator or by the renderer) are those of the same schematic
\* without its undefined instances, the render ends as that one ends, and the
\* warnings are the undefined names, one per instance, in order.
C4_MissingDefinitionSkipsOnlyThatInstance ==
    \A i \in 1..Len(renders) :
        LET e == renders[i]
            ref == Reference(e.by, WithoutUndefined(e), e.library)
        IN  /\ e.out.raised = ref.raised
            /\ e.out.symbols = ref.symbols
            /\ e.out.raised = "None" =>
                  e.out.warnings = [k \in 1..Len(Undefined(e)) |-> Undefined(e)[k].symbol_name]

\* Both implementations have rendered R1, X1, R2 with a library that defines
\* 'res' and not 'opamp': one warning, and both resistors drawn.
SkippedBetweenTwo(e) ==
    /\ e.schematic.symbols = <<R1, X1, R2>>
    /\ "res" \in DOMAIN e.library
    /\ e.out.raised = "None"
    /\ e.out.warnings = <<"opamp">>
    /\ Len(SelectSeq(e.out.symbols, LAMBDA el : el.tag = "g")) = 2

C4_Witness_SkippedBetweenTwo ==
    /\ \E i \in 1..Len(renders) : renders[i].by = "generate" /\ SkippedBetweenTwo(renders[i])
    /\ \E i \in 1..Len(renders) : renders[i].by = "renderer" /\ SkippedBetweenTwo(renders[i])

\* A shape that cannot be emitted: a coordinate is missing or a dash token
\* is not a number.
FailingShape(s) == ~s.has_coords \/ ~DashIsNumeric(s.style)

SoundShapeList(list) == SelectSeq(list, LAMBDA s : ~FailingShape(s))

\* The schematic of a render without its failing shapes and without the
\* instances whose definition holds a failing shape.
Sound(e) ==
    LET lib == IF e.by = "generate" THEN GeneratorSymbolData(e.library) ELSE e.library
    IN  [e.schematic EXCEPT
            !.shapes = Shapes(SoundShapeList(@.lines), SoundShapeList(@.circles),
                              SoundShapeList(@.rectangles), SoundShapeList(@.arcs)),
            !.symbols = SelectSeq(@, LAMBDA s :
                            s.symbol_name \in DOMAIN lib =>
                                \A d \in Range(AllShapes(lib[s.symbol_name])) :
                                    ~FailingShape(d))]

\* C5: a failure on one shape is isolated: every render still ends normally
\* and emits all the other shapes, texts and symbols, which are the elements
\* of the schematic without the failing shapes and instances.
C5_FailureIsolatedPerShape ==
    \A i \in 1..Len(renders) :
        LET e == renders[i]
            ref == Reference(e.by, Sound(e), e.library)
        IN  /\ e.out.raised = "None"
            /\ e.out.elements = ref.elements

C7_InputsNeverMutated ==
    [][schematic' = schematic /\ library' = library]_vars

---------------------------------------------------------------------------
(* The guards of the SVGRenderer methods: C11.                             *)

RenderOps ==
    {"render_wires", "render_symbols", "render_texts", "render_shapes", "render_flags"}

\* C11: in every order of calls on an SVGRenderer, a render_* method called
\* before both load_schematic and create_drawing have completed raises
\* ValueError, and save called before create_drawing has completed raises
\* ValueError.
C11_GuardsRaiseValueError ==
    /\ (rendererCall.op \in RenderOps
        /\ ~({"load_schematic", "create_drawing"} \subseteq rendererCall.completed))
       => rendererCall.raised = "ValueError"
    /\ (rendererCall.op = "save" /\ "create_drawing" \notin rendererCall.completed)
       => rendererCall.raised = "ValueError"

---------------------------------------------------------------------------
(* The kinds of flags the parser makes: C12.                               *)

\* The indices of the FLAG lines of the file that satisfy Test(i).
FlagLines(Test(_)) == {i \in 1..Len(ascLines) : ascLines[i].word = "FLAG" /\ Test(i)}

FlagsOfType(type) == SelectSeq(parsed.flags, LAMBDA f : f.type = type)

\* C12: after parse, every FLAG line is of exactly one kind: the IO pins are
\* as many as the FLAG lines with an IOPIN line right after them, the gnd
\* flags as many as the other FLAG lines with net name '0', and the
\* net_label flags as many as the other FLAG lines with another net name.
C12_EachFlagLineOneKind ==
    parsed.done =>
        /\ Len(parsed.io_pins) = Cardinality(FlagLines(LAMBDA i : FollowedByIOPin(ascLines, i)))
        /\ Len(FlagsOfType("gnd")) =
              Cardinality(FlagLines(LAMBDA i : ~FollowedByIOPin(ascLines, i)
                                               /\ ascLines[i].name = "0"))
        /\ Len(FlagsOfType("net_label")) =
              Cardinality(FlagLines(LAMBDA i : ~FollowedByIOPin(ascLines, i)
                                               /\ ascLines[i].name # "0"))

---------------------------------------------------------------------------
(* The text switches of render_texts: C13.                                 *)

\* What the last call added to the drawing.
Added ==
    SubSeq(renderer.dwg.elements, rendererCall.before + 1, Len(renderer.dwg.elements))

Position(e) == <<e.x, e.y>>
Positions(seq) == [i \in 1..Len(seq) |-> Position(seq[i])]

\* Whether the switch of the text's type is off.
SwitchOff(text) ==
    \/ text.type = "comment" /\ ~renderer.config.no_schematic_comment
    \/ text.type = "spice" /\ ~renderer.config.no_spice_directive

RenderTextsReturned == rendererCall.op = "render_texts" /\ rendererCall.raised = "None"

\* C13 as stated: render_texts emits a schematic text exactly when the
\* switch of its type is off.
C13_EmittedIffSwitchOff ==
    RenderTextsReturned =>
        Positions(Added) =
            Positions(SelectSeq(renderer.schematic_data.data.texts, SwitchOff))

\* C13: render_texts emits a schematic text that has content exactly when the
\* switch of its type (no_schematic_comment for a comment, no_spice_directive
\* for a directive) is off, whatever the other switch is; a text without
\* content is never emitted.
C13_TextWithContentEmittedIffSwitchOff ==
    RenderTextsReturned =>
        Positions(Added) =
            Positions(SelectSeq(renderer.schematic_data.data.texts,
                                LAMBDA t : SwitchOff(t) /\ t.text # ""))

\* Comments are switched off and directives are not: the directive of a
\* schematic with both is emitted, its comments are not.
C13_Witness_OnlyDirectiveEmitted ==
    /\ RenderTextsReturned
    /\ renderer.config.no_schematic_comment /\ ~renderer.config.no_spice_directive
    /\ renderer.schematic_data.data.texts = MixedTexts
    /\ Positions(Added) = <<<<0, 48>>>>

---------------------------------------------------------------------------
(* Net labels under no_net_label: C14.                                     *)

\* The contents of the texts inside the net-label groups of a sequence of
\* flag groups.
RECURSIVE TextContents(_)
TextContents(elements) ==
    IF elements = <<>> THEN {}
    ELSE (IF elements[1].tag = "text" THEN {elements[1].content}
          ELSE IF elements[1].tag = "g" THEN TextContents(elements[1].children)
          ELSE {})
         \cup TextContents(Tail(elements))

NetLabelTexts(elements) ==
    TextContents(SelectSeq(elements, LAMBDA e : e.tag = "g" /\ e.class = "net-label"))

NetLabelFlags(flags) == SelectSeq(flags, LAMBDA f : f.type = "net_label")

RenderFlagsCalledWhenReady ==
    /\ rendererCall.op = "render_flags"
    /\ rendererCall.completed = {"load_schematic", "create_drawing"}

\* C14: render_flags emits no net-label text when no_net_label is set, and
\* the net name of every net_label flag of the schematic when it is not.
C14_NetLabelsFollowOption ==
    RenderFlagsCalledWhenReady =>
        IF renderer.config.no_net_label
        THEN NetLabelTexts(Added) = {}
        ELSE \A f \in Range(NetLabelFlags(renderer.schematic_data.data.flags)) :
                f.net_name \in NetLabelTexts(Added)

---------------------------------------------------------------------------
(* Net labels and IO pins as drawn: C15, C16.                              *)

\* The scale the flag was drawn at: the renderer has none.
DrawnScale == IF flagDrawn.by = "generator" THEN flagScale ELSE 1

\* The font size of index 2 on the base font size.
LabelFontSize == DefaultFontSize * SizeMultiplier(2)

NetLabelDrawn == flagDrawn.by # "none" /\ flagInput.type = "net_label"

\* C15: a net label is drawn as one group, translated and rotated by the
\* flag, that holds nothing but the text of the net name: net_label_distance
\* above the origin of the group, with text-anchor middle and 1.5 times the
\* base font size.
C15_NetLabelIsTextAboveOrigin ==
    NetLabelDrawn =>
        /\ flagDrawn.raised = "None"
        /\ Len(flagDrawn.elements) = 1
        /\ flagDrawn.elements[1].transform = ScaledTransform(flagInput, DrawnScale)
        /\ Len(flagDrawn.elements[1].children) = 1
        /\ flagDrawn.elements[1].children[1].tag = "g"
        /\ LET texts == flagDrawn.elements[1].children[1].children
           IN  /\ Len(texts) = 1
               /\ texts[1].tag = "text"
               /\ texts[1].content = flagInput.net_name
               /\ texts[1].x = 0
               /\ texts[1].y = (0 - NetLabelDistance) * DrawnScale * 10000
               /\ texts[1].text_anchor = "middle"
               /\ texts[1].font_size = LabelFontSize

IOPinDrawn == flagDrawn.by # "none" /\ flagInput.type = "io_pin"

SegmentCount(direction) ==
    CASE direction = "BiDir" -> 6
      [] direction = "In" -> 5
      [] direction = "Out" -> 6

\* C16: an IO pin is drawn with a group, translated to the pin and rotated by
\* its orientation, that holds the lines of its direction: 6 for BiDir, 5
\* for In, 6 for Out.
C16_IOPinHasLinesOfDirection ==
    IOPinDrawn =>
        \E i \in 1..Len(flagDrawn.elements) :
            /\ flagDrawn.elements[i].transform = ScaledTransform(flagInput, DrawnScale)
            /\ Len(flagDrawn.elements[i].children) = SegmentCount(flagInput.direction)
            /\ \A k \in 1..Len(flagDrawn.elements[i].children) :
                  flagDrawn.elements[i].children[k].tag = "line"

---------------------------------------------------------------------------
(* Justification and size of a rendered text: C17, C18, C19.               *)

TextDrawn == textDrawn.by # "none" /\ textDrawn.elements # <<>>

\* C17: a text whose justification is not a recognised value is rendered
\* with the anchor of Left, 'start', and the render does not abort.
C17_UnknownJustificationIsLeft ==
    (textDrawn.by # "none" /\ textSource = "caller"
     /\ textRecord.justification \notin Recognised)
    => /\ textDrawn.raised = "None"
       /\ Len(textDrawn.elements) = 1
       /\ textDrawn.elements[1].text_anchor = "start"

\* The justification without the leading V of a vertical text.
Stripped ==
    CASE textRecord.justification \in {"Left", "VLeft"} -> "Left"
      [] textRecord.justification \in {"Right", "VRight"} -> "Right"
      [] textRecord.justification \in {"Center", "VCenter"} -> "Center"
      [] textRecord.justification \in {"Top", "VTop"} -> "Top"
      [] textRecord.justification \in {"Bottom", "VBottom"} -> "Bottom"
      [] OTHER -> "unknown"

DrawnByTextRenderer == TextDrawn /\ textDrawn.by \in {"text_renderer", "renderer"}

TableEntry(size) ==
    IF size.present /\ size.numeric /\ size.index \in 0..7
    THEN <<6250, 10000, 15000, 20000, 25000, 35000, 50000, 70000>>[size.index + 1]
    ELSE 15000

\* C19: after set_base_font_size(b), a text parsed from a TEXT line with size
\* index k is rendered by render_texts with font size b times the table
\* entry of k, and with 1.5 times b without a valid index.
C19_FontSizeIsBaseTimesTable ==
    (textDrawn.by = "renderer" /\ textSource = "parser") =>
        /\ Len(textDrawn.elements) = 1
        /\ textDrawn.elements[1].font_size = baseFontSize * TableEntry(textLine.size)

---------------------------------------------------------------------------
\* C20: every rectangle with a non-solid style is emitted as a closed
\* 4-segment path whose dash array is the style scaled by the stroke width,
\* never as a native rect element; a rectangle without a style is emitted
\* as a native rect element.
RectEmitted ==
    /\ rectDrawn.by # "none"
    /\ rectDrawn.raised = "None"

IsClosedRectPath(element) ==
    /\ element.tag = "path"
    /\ element.closed
    /\ Len(element.points) = 4
    /\ element.dash = ScaleDashArray(rectInput.style, rectStrokeWidth)

C20_StyledRectangleIsClosedPath ==
    RectEmitted =>
        /\ Len(rectDrawn.elements) = 1
        /\ IF rectInput.style # DashNone
           THEN IsClosedRectPath(rectDrawn.elements[1])
           ELSE rectDrawn.elements[1].tag = "rect"

---------------------------------------------------------------------------
\* C21: every emitted arc path has its large-arc flag set exactly when
\* (end_angle - start_angle) mod 360 exceeds 180, and its sweep flag set,
\* whatever the order of the two angles and whichever emitter drew it.
ArcEmitted ==
    /\ arcDrawn.by # "none"
    /\ arcDrawn.raised = "None"

C21_ArcFlagsFromAngleDifference ==
    ArcEmitted =>
        /\ Len(arcDrawn.elements) = 1
        /\ arcDrawn.elements[1].large_arc
             = ((arcInput.end_angle - arcInput.start_angle) % 360 > 180)
        /\ arcDrawn.elements[1].sweep = TRUE

---------------------------------------------------------------------------
\* C22: the computed view box contains every wire endpoint, every shape
\* bounding box, the box of 100 units around every symbol instance, the box
\* of 50 by 20 units around every text and the box of 20 by 10 units around
\* every flag of the schematic.
ViewboxComputed ==
    /\ vbBox.by # "none"
    /\ vbBox.raised = "None"

\* The point (x, y) of the schematic lies inside the box.
InViewbox(x, y) ==
    /\ vbBox.finite
    /\ vbBox.box.min_x <= x * vbBox.unit
    /\ x * vbBox.unit <= vbBox.box.min_x + vbBox.box.width
    /\ vbBox.box.min_y <= y * vbBox.unit
    /\ y * vbBox.unit <= vbBox.box.min_y + vbBox.box.height

BoxInViewbox(x, y, dx, dy) ==
    InViewbox(x - dx, y - dy) /\ InViewbox(x + dx, y + dy)

C22_ViewboxContainsAllElements ==
    ViewboxComputed =>
        /\ \A w \in Range(vbSchematic.wires) :
              InViewbox(w.x1, w.y1) /\ InViewbox(w.x2, w.y2)
        /\ \A s \in Range(AllShapes(vbSchematic.shapes)) :
              InViewbox(s.x1, s.y1) /\ InViewbox(s.x2, s.y2)
        /\ \A s \in Range(vbSchematic.symbols) : BoxInViewbox(s.x, s.y, 100, 100)
        /\ \A t \in Range(vbSchematic.texts) : BoxInViewbox(t.x, t.y, 50, 20)
        /\ \A f \in Range(vbSchematic.flags) : BoxInViewbox(f.x, f.y, 20, 10)

---------------------------------------------------------------------------
\* C23: the view box has strictly positive width and height; a schematic
\* with no elements gets (0, 0, 100, 100), and geometry without extent in
\* one dimension gets a positive extent in that dimension.
HasNoElements(schematic_data) ==
    /\ schematic_data.wires = <<>>
    /\ schematic_data.symbols = <<>>
    /\ schematic_data.texts = <<>>
    /\ schematic_data.flags = <<>>
    /\ schematic_data.shapes = NoShapes

C23_ViewboxHasPositiveSize ==
    ViewboxComputed =>
        /\ vbBox.finite
        /\ vbBox.box.width > 0
        /\ vbBox.box.height > 0
        /\ HasNoElements(vbSchematic) =>
              vbBox.box = [min_x |-> 0, min_y |-> 0,
                           width |-> 100 * vbBox.unit, height |-> 100 * vbBox.unit]

---------------------------------------------------------------------------
\* C24: every symbol instance that reaches rendering has rotation kind R or
\* M and an angle among 0, 90, 180 and 270; any other rotation value of the
\* input is replaced by R0 with a warning, and never makes the parse or the
\* placement fail.
RightAngles == {0, 90, 180, 270}

IsSoundRotation(rotation) ==
    /\ rotation.type \in {"R", "M"}
    /\ rotation.numeric
    /\ rotation.angle \in RightAngles

C24_RotationIsRightAngleOrDefault ==
    /\ (symbolParsed.called /\ symbolLine.coords_ok) =>
          /\ Len(symbolParsed.symbols) = 1
          /\ IsSoundRotation(symbolParsed.symbols[1].rotation)
          /\ (symbolLine.has_rotation /\ ~IsSoundRotation(symbolLine.rotation)) =>
                /\ symbolParsed.symbols[1].rotation = Rot("R", 0)
                /\ symbolParsed.warnings # <<>>
    /\ symbolPlaced.called =>
          /\ symbolPlaced.raised = "None"
          /\ \A i \in 1..Len(symbolPlaced.transform) :
                symbolPlaced.transform[i].kind = "rotate" =>
                    symbolPlaced.transform[i].a \in RightAngles

---------------------------------------------------------------------------
\* C25: a flag's orientation follows from the directions of the wires of
\* the schematic that end at its point: 270 when all are 90 or 270, 90 when
\* all are 0 or 180, the direction of the first such wire when they are
\* mixed, 0 when there is none; it is always 0, 90, 180 or 270.
WireLinesOf(lines) == SelectSeq(lines, LAMBDA line : line.word = "WIRE")

\* The wire lines of the file that end at the point (x, y).
IncidentLines(lines, x, y) ==
    SelectSeq(WireLinesOf(lines),
              LAMBDA line : (line.x = x /\ line.y = y) \/ (line.x2 = x /\ line.y2 = y))

\* The direction of a wire line seen from the point (x, y): 90 to the right,
\* 180 downwards, 270 to the left, 0 upwards; a diagonal goes with the
\* horizontal.
LineDirectionFrom(line, x, y) ==
    LET ox == IF line.x = x /\ line.y = y THEN line.x2 ELSE line.x
        oy == IF line.x = x /\ line.y = y THEN line.y2 ELSE line.y
    IN  CASE ox > x /\ Abs(oy - y) <= ox - x -> 90
          [] ox < x /\ Abs(oy - y) <= x - ox -> 270
          [] oy > y /\ Abs(ox - x) < oy - y -> 180
          [] oy < y /\ Abs(ox - x) < y - oy -> 0
          [] OTHER -> 90

ExpectedOrientation(lines, x, y) ==
    LET incident == IncidentLines(lines, x, y)
        directions == {LineDirectionFrom(incident[i], x, y) : i \in 1..Len(incident)}
    IN  IF incident = <<>> THEN 0
        ELSE IF directions \subseteq {90, 270} THEN 270
        ELSE IF directions \subseteq {0, 180} THEN 90
        ELSE LineDirectionFrom(incident[1], x, y)

C25_OrientationFromIncidentWires ==
    \A k \in 1..Len(flagParses) :
        \A i \in 1..Len(flagParses[k].flags) :
            LET flag == flagParses[k].flags[i]
            IN  /\ flag.orientation \in {0, 90, 180, 270}
                /\ flag.orientation = ExpectedOrientation(flagParses[k].lines, flag.x, flag.y)

---------------------------------------------------------------------------
\* C26: the orientation of a flag does not depend on whether the WIRE lines
\* of the wires at its point stand before or after the FLAG line: two
\* parses of files that differ only by WIRE lines moved across the FLAG
\* line give the flag the same orientation.
C26_OrientationIgnoresLineOrder ==
    \A j, k \in 1..Len(flagParses) :
        WireLinesOf(flagParses[j].lines) = WireLinesOf(flagParses[k].lines) =>
            flagParses[j].flags[1].orientation = flagParses[k].flags[1].orientation

---------------------------------------------------------------------------
\* C27: the emitted elements keep the order of the schematic: elements of
\* one collection appear in the order the collection has in the input, and
\* the collections appear in one fixed order, whatever the schematic holds.
OrderDone ==
    /\ orderEmitted.by # "none"
    /\ orderEmitted.raised = "None"

\* The x coordinate that tells which input element an emitted element came
\* from; -1 for a junction dot.
ElementKey(e) ==
    IF e.tag = "g" THEN e.transform[1].a
    ELSE IF e.tag = "text" THEN e.x
    ELSE IF "fill" \in DOMAIN e THEN -1
    ELSE IF "x1" \in DOMAIN e THEN e.x1
    ELSE IF e.tag = "rect" THEN e.x
    ELSE IF e.tag \in {"circle", "ellipse"} THEN e.cx
    ELSE IF e.tag = "path" /\ e.closed THEN e.points[1][1]
    ELSE IF e.tag = "path" THEN e.start_x
    ELSE -1

\* The same coordinate of an input element: the centre of a circle or an
\* arc starting at 90 degrees when the emitter is generate, else the first
\* corner.
InputKey(by, collection, element) ==
    IF collection \in {"symbols", "texts"} THEN element.x
    ELSE IF by = "generate" /\ collection \in {"circles", "arcs"}
    THEN (element.x1 + element.x2) \div 2
    ELSE element.x1

CollectionOf(schematic_data, collection) ==
    CASE collection = "wires" -> schematic_data.wires
      [] collection = "symbols" -> schematic_data.symbols
      [] collection = "texts" -> schematic_data.texts
      [] collection = "lines" -> schematic_data.shapes.lines
      [] collection = "circles" -> schematic_data.shapes.circles
      [] collection = "rectangles" -> schematic_data.shapes.rectangles
      [] collection = "arcs" -> schematic_data.shapes.arcs

\* The fixed order of the collections of each emitter.
CollectionOrder(by) ==
    IF by = "generate"
    THEN <<"wires", "lines", "circles", "rectangles", "arcs", "symbols", "texts">>
    ELSE <<"wires", "symbols", "texts", "lines", "rectangles", "circles", "arcs">>

\* The places <<rank of the collection, index in the collection>> of the
\* input element with the given key; empty for a key of no input element.
PlacesOf(by, schematic_data, key) ==
    {<<r, i>> \in (1..7) \X (1..3) :
        /\ i <= Len(CollectionOf(schematic_data, CollectionOrder(by)[r]))
        /\ InputKey(by, CollectionOrder(by)[r],
                    CollectionOf(schematic_data, CollectionOrder(by)[r])[i]) = key}

Before(a, b) == a[1] < b[1] \/ (a[1] = b[1] /\ a[2] < b[2])

\* The emitted elements of the wires and shapes: every one exactly once.
EmittedOnce(by, schematic_data, elements) ==
    \A r \in 1..7 :
        CollectionOrder(by)[r] \notin {"symbols", "texts"} =>
            \A i \in 1..Len(CollectionOf(schematic_data, CollectionOrder(by)[r])) :
                Cardinality({p \in 1..Len(elements) :
                    <<r, i>> \in PlacesOf(by, schematic_data, ElementKey(elements[p]))}) = 1

C27_EmittedOrderFollowsInput ==
    OrderDone =>
        /\ \A p, q \in 1..Len(orderEmitted.elements) :
              p < q =>
                \A a \in PlacesOf(orderEmitted.by, orderSchematic,
                                  ElementKey(orderEmitted.elements[p])) :
                    \A b \in PlacesOf(orderEmitted.by, orderSchematic,
                                      ElementKey(orderEmitted.elements[q])) :
                        Before(a, b)
        /\ EmittedOnce(orderEmitted.by, orderSchematic, orderEmitted.elements)

\* An emitter has emitted two symbols around a skipped one, and two texts,
\* two wires and two rectangles that stand in the input in the order
\* opposite to their coordinates.
C27_Witness_ReversedCollectionsEmitted ==
    /\ OrderDone
    /\ Len(orderSchematic.symbols) = 3
    /\ Len(orderSchematic.texts) = 2
    /\ orderSchematic.texts[1].x > orderSchematic.texts[2].x
    /\ Len(orderSchematic.wires) = 2
    /\ orderSchematic.wires[1].x1 > orderSchematic.wires[2].x1
    /\ orderSchematic.shapes.rectangles[1].x1 > orderSchematic.shapes.rectangles[2].x1
    /\ Cardinality({p \in 1..Len(orderEmitted.elements) :
                       orderEmitted.elements[p].tag = "g"}) = 2
    /\ Cardinality({p \in 1..Len(orderEmitted.elements) :
                       orderEmitted.elements[p].tag = "text"
                       /\ orderEmitted.elements[p].x \in {1200, 1300}}) = 2

---------------------------------------------------------------------------
\* C28: after any sequence of assignments to the base_font_size of a
\* SymbolRenderer or FlagRenderer, the rejected ones included (a value that
\* is not positive raises ValueError), the renderer's base_font_size equals
\* that of its TextRenderer, and both equal the last positive value
\* assigned.
RECURSIVE LastAccepted(_)
LastAccepted(values) ==
    IF values = <<>> THEN DefaultBaseFontSize
    ELSE IF values[Len(values)] > 0 THEN values[Len(values)]
    ELSE LastAccepted(SubSeq(values, 1, Len(values) - 1))

C28_FontSizesAgreeAfterAssignments ==
    /\ fontRenderer.base_font_size = fontRenderer.text_renderer.base_font_size
    /\ fontRenderer.base_font_size = LastAccepted(fontAssigned)
    /\ fontAssigned # <<>> =>
          (fontRaised = "ValueError") = (fontAssigned[Len(fontAssigned)] <= 0)

\* A positive value was accepted and a later non-positive one rejected.
C28_Witness_RejectedAfterAccepted ==
    /\ fontRenderer.kind = "FlagRenderer"
    /\ Len(fontAssigned) = 3
    /\ fontAssigned[2] = 30
    /\ fontAssigned[3] = -10
    /\ fontRaised = "ValueError"
    /\ fontRenderer.text_renderer.base_font_size = 30

---------------------------------------------------------------------------
\* C29: every parse made through one ASYParser object, by parse() or by
\* export_json(), gives the symbol definition the first one gave: no entry
\* of its lines, circles, rectangles, arcs or windows is there twice.
C29_RepeatedParseGivesSameDefinition ==
    \A k \in 1..Len(asyReturned) :
        /\ asyReturned[k].result = asyReturned[1].result
        /\ \A word \in {"LINE", "CIRCLE", "RECTANGLE", "ARC", "WINDOW"} :
              LET list == CASE word = "LINE" -> asyReturned[k].result.lines
                            [] word = "CIRCLE" -> asyReturned[k].result.circles
                            [] word = "RECTANGLE" -> asyReturned[k].result.rectangles
                            [] word = "ARC" -> asyReturned[k].result.arcs
                            [] word = "WINDOW" -> asyReturned[k].result.texts
              IN  Len(list) = Cardinality({i \in 1..Len(asyParser.file) :
                                              /\ asyParser.file[i].word = word
                                              /\ asyParser.file[i].well_formed})

---------------------------------------------------------------------------
\* The symbol in progress has been given a definition: begin_symbol clears
\* the definition and set_symbol_definition stores one only in a symbol.
DefinitionGiven == inSpan /\ ~symbolRenderer.symbol_def.is_none

\* C30: once set_symbol_definition has been called for the symbol in
\* progress, with any dictionary, the empty one included,
\* render_component_name and render_component_value return normally.
C30_NameAndValueAcceptAnyDefinition ==
    (/\ DefinitionGiven
     /\ lastCall.op \in {"render_component_name", "render_component_value"})
        => lastCall.raised = "None"

=============================================================================
